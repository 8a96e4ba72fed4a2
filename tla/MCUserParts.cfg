SPECIFICATION PartsSpec
CONSTANTS
    r1 = r1
    r2 = r2
    x = x
    Principals = {p, q}
    Roots = {r1, r2}
    Deps <- SharedDeps
    Intents = {r2}
    NoRoot = NoRoot
    Torn = Torn
    Nobody = Nobody
    Holdable = {r1}
    ArenaBlocks = 10
    Reserve = 1
    MaxResults = 1
    MaxSequence = 1
    MaxCompacts = 2
    MaxTroubles = 2
    Replaced = FALSE
    Persists = FALSE
    ReadFaults = FALSE
    Blobs = {b1, b2}
    Nothing = Nothing
    Blank = Blank
SYMMETRY Symmetry
INVARIANTS
    AckedSurvives
    ServedLoads
    
    VersionsHonest
    
    DriversTrue
PROPERTIES
    ImplementsVersions
    LatchedStays
CHECK_DEADLOCK FALSE
