CONSTANTS
    pl1 = pl1
    pl2 = pl2
    de1 = de1
    Runs = {a}
    CountriesActive <- MCCountries
    Lockers = {pl1, de1}
    CountryOf <- MCCountryOf
    Points <- MCPoints
    PerPage = 1
    MaxAttempts = 1
    BatchSize = 2
    Poland = "PL"
    NullIsland = "nowhere"
    GminaAt <- MCGminaAt
    Nuts2At <- MCNuts2At
    CellAt <- MCCellAt
    Null = "null"
    Absent = Absent
    Commands = {"all"}
    CronJobs = {}
    MaxChanges = 1

SPECIFICATION Spec

INVARIANT
    TableIsCurrentSnapshot
