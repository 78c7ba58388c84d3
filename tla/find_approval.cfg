SPECIFICATION Spec
CONSTANTS
    clean = clean
    good = good
    bad = bad
    None = None
    Task = {t1}
    Content <- MCContent
    Clean = clean
    InScope <- MCInScope
    Other = {}
    Reports <- MCReports
    Manual = TRUE
    Exposed <- BetweenReads
    Disturbances = {"edit"}
    Commands <- CLICommand
    OperatorPhases = {}
    MaxCommits = 1
PROPERTY
    ApprovalRechecksWorktree
