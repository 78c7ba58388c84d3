SPECIFICATION Spec
CONSTANTS
    MaxChars = 6
    MaxText = 5
CHECK_DEADLOCK FALSE
INVARIANT
    NeverCutsInsideFence
