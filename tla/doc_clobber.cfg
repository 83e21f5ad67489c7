SPECIFICATION Spec
CONSTANTS
    Tasks = {t1, t2}
    Paths = {1}
    Contents = {"a", "b"}
    NoFile = NoFile
    NoIndex = NoIndex
    Nobody = Nobody
    Writes <- MCWrites
    MaxRuns = 2
    MaxFaults = 0
PROPERTY
    NoSilentClobber
