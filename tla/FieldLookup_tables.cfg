SPECIFICATION Spec
CONSTANT Definitions <- MCDefinitions
INVARIANTS LookupExact WellFilled
CHECK_DEADLOCK FALSE
