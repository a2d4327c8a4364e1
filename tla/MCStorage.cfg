CONSTANTS
    Values = {0, 1}
    Default = 0
    OldReadsNewer = FALSE
    Partitioned = TRUE
    Preempt <- Polite
    SaveFailing = {"save", "post", "wipe"}
    MaxSaves = 2
    MaxTrials = 1
    Ports = {"p1"}
    Sectors = 3
    PPS = 2
    ClearAt = {"idle"}
    LogFailing = {"append", "clear"}
    MaxRecords = 7
SPECIFICATION StorageSpec
INVARIANTS
    SavedIsFound
    OwedIsMarked
    WipedIsGone
    RecentListed
PROPERTIES
    Durable
