SPECIFICATION Spec
CONSTANTS
    Runners = {r1, r2}
    Paths = {1}
    Contents <- MCContents
    NoFile = NoFile
    NoRow = NoRow
    RenamedTo <- MCRenamedTo
    Responses <- RepairAnswers
    RetrievalCosts = {1}
    TokenBudget = 4
    StepBudget = 2
    MaxRepairAttempts = 1
    Modes = {"apply", "dry_run"}
    MaxCost = 1
    MaxRuns = 3
    MaxFaults = 1
INVARIANT
    OverlapCharges
