SPECIFICATION Spec
CONSTANTS
    MaxSessions = 3
    CostCap = 1
    MaxUsage = 2
    MaxFaults = 1
    Arm = {self, congress}
    Baseline = self
    Comparison = congress
    MaxRuns = 2
CHECK_DEADLOCK FALSE
INVARIANTS
    ModelsRunInSoundSandbox
    ValidRunIsWhole
    QualityComparesValidRuns
    CompletedBlockIsWhole
    WorktreeIsQuiet
