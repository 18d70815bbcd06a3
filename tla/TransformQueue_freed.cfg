SPECIFICATION Spec
CONSTANTS
    Kind <- MCKind
    Fields <- MCFields
    Roots = {"Table"}
    Scalar = "scalar"
    Keys = {1}
    MaxEvents <- MCMaxEvents
INVARIANTS CountsCoverHolders
CHECK_DEADLOCK FALSE
