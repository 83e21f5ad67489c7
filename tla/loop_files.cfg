SPECIFICATION Spec
CONSTANTS
    Runners = {r1}
    Paths = {1, 2}
    Contents <- MCContents
    NoFile = NoFile
    NoRow = NoRow
    RenamedTo <- MCRenamedTo
    Responses <- FileAnswers
    RetrievalCosts = {1}
    TokenBudget = 9
    StepBudget = 3
    MaxRepairAttempts = 1
    Modes = {"apply", "dry_run"}
    MaxCost = 1
    MaxRuns = 2
    MaxFaults = 1
INVARIANT
    ArtifactPrecedesWrite
PROPERTIES
    BaseChangesOnlyVerified
    ImplementsEffectivelyOnce
