SPECIFICATION Spec
CONSTANTS
    clean = clean
    good = good
    bad = bad
    None = None
    Task = {t1}
    Content <- MCContent
    Clean = clean
    InScope <- MCInScope
    Other = {}
    Reports <- MCReports
    Manual = TRUE
    Exposed <- BetweenReads
    Disturbances = {"edit", "commit", "branch"}
    Commands <- CLICommand
    OperatorPhases = {}
    MaxCommits = 1
INVARIANTS
    TypeOK
    MergedIsValidated
    MergedIsApproved
    ReadyTaskIsAnswered
    ValidatedIsInScope
PROPERTIES
    MergeRestsOnRecordInForce
    StatusFollowsTable
    ImplementsGate
