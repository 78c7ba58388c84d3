SPECIFICATION Spec
CONSTANTS
    MaxFinalize = 3
CHECK_DEADLOCK FALSE
INVARIANTS
    VerifierRunsAlone
    ObjectiveIsVerified
    ResultIsOnRecord
