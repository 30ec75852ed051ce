CONSTANTS
    PRE_LAUNCH = {"SE", "DK", "FI"}
    SERIES = {"PL", "FR", "GB", "IT"}
    NoDensity = NoDensity
    NoValue = NoValue
    MAX_TRIES = 4
    MaxGen = 2
    CountriesAt <- MCCountriesAt
    Nuts2At <- MCNuts2At
    GminyAt <- MCGminyAt
    VelocityPoints <- MCVelocityPoints
    TopLimit = 2
    TopMinPopulation = 10
    NoCountry = NoCountry
    NoInterceptor = NoInterceptor

SPECIFICATION FairSpec

INVARIANTS
    TypeOK
    PanelErrorIsEarned
    FiguresAgree
    VelocityLabelsMatchLine

PROPERTY
    PageEventuallySettles
