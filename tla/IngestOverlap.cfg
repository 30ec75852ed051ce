CONSTANTS
    pl1 = pl1
    pl2 = pl2
    de1 = de1
    Runs = {a, b}
    CountriesActive <- MCOneCountry
    Lockers = {pl1, pl2}
    CountryOf <- MCCountryOf
    Points <- MCFaulty
    PerPage = 1
    MaxAttempts = 1
    BatchSize = 2
    Poland = "PL"
    NullIsland = "nowhere"
    GminaAt <- MCGminaAt
    Nuts2At <- MCNuts2At
    CellAt <- MCCellAt
    Null = "null"
    Absent = Absent
    Commands = {"all"}
    CronJobs = {}
    MaxChanges = 1

SYMMETRY OverlapSymmetry
SPECIFICATION Spec

INVARIANTS
    RunConverges
    QuietRunNeverRaises

PROPERTY
    MirrorSpec
