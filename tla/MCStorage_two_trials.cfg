CONSTANTS
    Values = {0, 1}
    Default = 0
    OldReadsNewer = FALSE
    Partitioned = TRUE
    Preempt <- Polite
    SaveFailing = {}
    MaxSaves = 2
    MaxTrials = 2
    Ports = {"p1"}
    Sectors = 2
    PPS = 2
    ClearAt = {"idle"}
    LogFailing = {}
    MaxRecords = 0
SPECIFICATION StorageSpec
INVARIANT RevertFindsItsRecord
