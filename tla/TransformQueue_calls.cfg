SPECIFICATION Spec
CONSTANTS
    Kind <- MCKind
    Fields <- MCFields
    Roots = {"Tree", "Table", "Maps", "Whole"}
    Scalar = "scalar"
    Keys = {1}
    MaxEvents <- MCMaxEvents
INVARIANTS
    TypeOK
    CountsCoverHoldersOutsideTables
    NothingLeaks
    KeptTransformedOnce
    AllTransformed
    TableIsOwnFields
PROPERTIES
    ChildrenFirst
CHECK_DEADLOCK FALSE
