SPECIFICATION Spec
CONSTANTS
    clean = clean
    good = good
    bad = bad
    None = None
    Task = {t1, t2}
    Content = {clean}
    Clean = clean
    InScope = {}
    Other = {o1}
    Reports <- MCReportsEmpty
    Manual = FALSE
    Exposed = {}
    Disturbances = {"integration", "main"}
    Commands = {"run", "phase", "create", "prepare", "execute", "integrate", "promote"}
    OperatorPhases = {"executing", "deciding"}
    MaxCommits = 0
SYMMETRY TaskSymmetry
INVARIANTS
    LogNeverAheadOfGit
    ClosedTaskWasChecked
    CombinedResultIsCurrent
    MainHoldsVerifiedHead
