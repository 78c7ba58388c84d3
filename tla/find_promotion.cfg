SPECIFICATION Spec
CONSTANTS
    clean = clean
    good = good
    bad = bad
    None = None
    Task = {t1}
    Content <- MCContent
    Clean = clean
    InScope <- MCInScope
    Other = {}
    Reports <- MCReports
    Manual = FALSE
    Exposed <- BetweenReads
    Disturbances = {"edit", "commit"}
    Commands = {"create", "prepare", "execute", "integrate", "promote"}
    OperatorPhases = {}
    MaxCommits = 1
INVARIANT
    PromotionRunsEveryCheck
