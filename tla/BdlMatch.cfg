CONSTANTS
    UnitIds = {u1, u2, u3}
    Vojs = {1, 2}
    UnitNames = {"Kowal", "Kowal do 2001", "Gmina "}
    Kinds = {1, 2, 3, 4, 5, 0}
    Rodzaje = {1, 2, 3, 9}
    MaxUnits = 3
    Normalized <- MCNormalized
    NoName = ""
    NoKind = 0
    NoUnit = NoUnit

SYMMETRY UnitIdSymmetry
SPECIFICATION IndexSpec
CHECK_DEADLOCK FALSE

INVARIANTS
    MatchIsPreferred
    UniqueNameIsMatched
    TownAndCountryApart
