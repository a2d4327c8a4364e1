CONSTANTS
    Ports = {"p1", "p2"}
    CMD_QUEUE_DEPTH = 2
    EVT_QUEUE_DEPTH = 1
    Levels = {100}
    DimLevel = 10
    Chassis = {"fine"}
    Holds = {0}
    Budgets = {200}
    HOLD = 1
    Scenes = {{"port"}}
    Crosses = FALSE
    Repeats = FALSE
SPECIFICATION MainSpec
INVARIANT OnlyVisibility
