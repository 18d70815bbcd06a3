SPECIFICATION Spec
CONSTANTS
    Registries = {"r", "s"}
    Kind <- MCKind
    Nested <- MCNested
    Uses <- MCUses
    Repeated <- MCRepeated
    Methods <- MCMethods
    FullName <- MCFullName
    TopLevel <- MCTopLevel
    Depends <- MCDepends
    WktPackage = "g"
    WktPrefix = "WKT"
    Prefixes = {"P"}
    LooksLikeEntry = {"E"}
    Options <- MCOptions
    MaxCalls = 2
INVARIANTS
    TypeOK
    NothingLost
    ReadyIsClosed
    AskedIsMapped
    OwnMapFieldsAgree
    ServicesResolve
PROPERTIES
    ClassKeepsType
    CallsEnd
CHECK_DEADLOCK FALSE
