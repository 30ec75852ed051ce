CONSTANTS
    Rows <- MCRows
    NoVoivodeship = NoVoivodeship
    NoDensity = NoDensity
    Needles = {"", "odd", "zzz"}
    Contains <- MCContains
    Populations = {0, 3, 5}
    DefaultPopulation = 3
    PageSizes = {2, 3, 5}
    DefaultPageSize = 3

SPECIFICATION Spec

INVARIANTS
    TypeOK
    PageNeverStuck
    ShowingIsTrue
    DefaultOrderIsNumbered
