SPECIFICATION FairSpec
CONSTANTS
    Tasks = {t1, t2}
    Paths = {1, 2}
    Contents = {"a", "b"}
    NoFile = NoFile
    NoIndex = NoIndex
    Nobody = Nobody
    Writes <- MCWrites
    MaxRuns = 1
    MaxFaults = 1
INVARIANTS
    TypeOK
    LockProtects
    HeadDescribesBase
PROPERTIES
    CommitsSerialize
    LockReleased
