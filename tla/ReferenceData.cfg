CONSTANTS
    Loaders = {a, b}
    Codes <- MCCodes
    IsTeryt <- MCIsTeryt
    VojOf <- MCVojOf
    RodzajOf <- MCRodzajOf
    Regions <- MCRegions
    IsNuts2 <- MCIsNuts2
    Names <- MCNames
    Normalized <- MCNormalized
    NoName = ""
    NoKind = 0
    NoUnit = NoUnit
    Shapes <- MCShapes
    AreaOf <- MCAreaOf
    Shapefiles <- MCShapefiles
    BdlFiles <- MCBdlFiles
    NutsFiles <- MCNutsFiles
    EurostatFiles <- MCEurostatFiles
    MinMatchRate = 95
    Null = Null
    Absent = Absent
    MaxDownloads = 1

SPECIFICATION Spec
SYMMETRY Symmetry

INVARIANTS
    TypeOK
    RowsFitTheirTable
    PrgLoadIsComplete
    PopulationLoadIsComplete
