SPECIFICATION Spec
CONSTANTS
    Registries = {"r"}
    Kind <- MCKind
    Nested <- MCNested
    Uses <- MCUses
    Repeated <- MCRepeated
    Methods <- MCMethods
    FullName <- MCFullName
    TopLevel <- MCTopLevel
    Depends <- MCDepends
    WktPackage = "g"
    WktPrefix = "WKT"
    Prefixes = {"P"}
    LooksLikeEntry = {"E"}
    Options <- MCOptions
    MaxCalls = 1
INVARIANTS EveryMessageHasClass
CHECK_DEADLOCK FALSE
