CONSTANTS
    Factory = 2
    Pushed = {3}
    Pulled = {1}
    Releases = {3}
    Signed = {1, 3}
    Cells = 2
    Conns = {"c1"}
    Waivers = {{"downgrade"}}
    MaxFaults = 1
    Ports = {"p1"}
    CMD_QUEUE_DEPTH = 2
    EVT_QUEUE_DEPTH = 1
    Levels = {100, 200}
    DimLevel = 10
    Chassis = {"fine", "setup"}
    Holds = {0, 255}
    Budgets = {200, 600}
    HOLD = 1
    Scenes <- Moves
    Crosses = FALSE
    Repeats = FALSE
    NUM_PORTS = 1
    N_SUBS = 1
    STALL_CYCLES = 2
    Labels = {"old", "new"}
    TlsModes = {"off", "verified", "blocked"}
    MidRun = FALSE
    AtOnce = FALSE
    LOG_RING_SIZE = 5
    LOG_LINE_MAX = 3
    LINES_PER_POLL = 2
    Writes <- Texts
    Hosts = {"h1", "h2"}
    LateAnswers = FALSE
    MaxWrites = 4
    WRAP = 8
    FAN_MIN_HOLD_MS = 2
    WritesFail = TRUE

SPECIFICATION ManageSpec
INVARIANTS
    FallsBackWhole
    RunsWhole
    CapBeforePorts
    AdminFollows
    LinkFollowsSettings
    EntitiesAnnounced
    LinesAccounted
PROPERTIES
    RolledBackStays
    NoFlap
