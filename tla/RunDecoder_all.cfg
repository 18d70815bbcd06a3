SPECIFICATION Spec
CONSTANTS
    Messages <- Types
    Roots = {"RMerge", "RNest", "RMap"}
    NoMessage = "no message"
    Schema <- MCSchema
    Traits <- MCTraits
    Explicit <- MCExplicit
    Check <- MCCheck
    Entries <- MapEntries
    Keys = {"a", "b"}
    DefaultKey = "a"
    MaxCalls = 2
    MaxTokens = 10
INVARIANTS StacksAligned OneofExclusiveInOnePiece RequiredPresent
    HeldContainersLive TreeFitsSchema DefaultsPresent
PROPERTIES MissingIsMissingInOnePiece DecodedStays
CHECK_DEADLOCK FALSE
