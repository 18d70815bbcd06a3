SPECIFICATION Spec
CONSTANTS
    a1 = a1
    a2 = a2
    h1 = h1
    NoContainer = none
    NoOneof = "none"
    Fields <- MCFields
    Kind <- MCKind
    Type <- MCType
    Oneof <- MCOneof
    Extensions = {"extension"}
    Styles = {"get_and_set", "single_accessor"}
    Keys = {"k"}
    Arrays = {a1, a2}
    Hashes = {h1}
    MaxSize = 2
    MaxHeld = 1
SYMMETRY Sym
INVARIANTS TypeOK OneofExclusive CountsAreHolders
PROPERTIES OneFieldPerCall
CHECK_DEADLOCK FALSE
