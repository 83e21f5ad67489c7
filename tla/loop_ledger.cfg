SPECIFICATION FairSpec
CONSTANTS
    Runners = {r1}
    Paths = {1}
    Contents <- MCContents
    NoFile = NoFile
    NoRow = NoRow
    RenamedTo <- MCRenamedTo
    Responses <- LedgerAnswers
    RetrievalCosts = {1}
    TokenBudget = 5
    StepBudget = 4
    MaxRepairAttempts = 1
    Modes = {"apply", "dry_run"}
    MaxCost = 2
    MaxRuns = 3
    MaxFaults = 2
INVARIANTS
    TypeOK
    ChargedExactlyOnce
    SpendBounded
    JournalContiguous
    SuccessIsLastVerdict
    PaidCallsAccounted
    MeteringBounded
    RepairsBounded
PROPERTIES
    TerminalAbsorbing
    RunEnds
