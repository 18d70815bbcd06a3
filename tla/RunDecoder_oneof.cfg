SPECIFICATION Spec
CONSTANTS
    Messages <- Types
    Roots = {"RMerge"}
    NoMessage = "no message"
    Schema <- MCSchema
    Traits <- MCTraits
    Explicit <- MCExplicit
    Check <- MCCheck
    Entries <- MapEntries
    Keys = {"a", "b"}
    DefaultKey = "a"
    MaxCalls = 1
    MaxTokens = 10
INVARIANTS OneofExclusive
CHECK_DEADLOCK FALSE
