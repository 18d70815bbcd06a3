SPECIFICATION Spec
CONSTANTS
    Fields <- MCFields
    Style <- MCStyle
    CheckRequired = {"B", "T"}
    IgnoreUndef = {"A"}
    Names <- MCNames
    Values <- MCValues
    Inputs <- MCInputs
    MaxCalls = 2
    MaxDepth = 2
INVARIANTS ErrorIsItsOwn
