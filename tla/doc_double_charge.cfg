SPECIFICATION Spec
CONSTANTS
    Runners = {r1, r2}
    Paths = {1}
    Contents <- MCContents
    NoFile = NoFile
    NoRow = NoRow
    RenamedTo <- MCRenamedTo
    Responses <- RepairAnswers
    RetrievalCosts = {1}
    TokenBudget = 9
    StepBudget = 3
    MaxRepairAttempts = 1
    Modes = {"dry_run"}
    MaxCost = 1
    MaxRuns = 2
    MaxFaults = 0
INVARIANT
    NoDoubleCharge
