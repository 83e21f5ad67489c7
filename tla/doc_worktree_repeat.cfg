SPECIFICATION Spec
CONSTANTS
    Runners = {r1}
    Paths = {1}
    Contents <- MCContents
    NoFile = NoFile
    NoRow = NoRow
    RenamedTo <- MCRenamedTo
    Responses <- FileAnswers
    RetrievalCosts = {1}
    TokenBudget = 9
    StepBudget = 4
    MaxRepairAttempts = 1
    Modes = {"dry_run"}
    MaxCost = 1
    MaxRuns = 2
    MaxFaults = 0
INVARIANT
    WorktreeHoldsPatch
