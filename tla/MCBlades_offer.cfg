CONSTANTS
    Bundled = TRUE
    Pages = 2
    PerPage = 2
    TRIES = 3
    WAIT_MAX = 2
    NoStretch = {TRUE, FALSE}
    HasCrc = {TRUE, FALSE}
    MaxBad = 1
    Configs <- Caps
    Commands = {}
    CMD_QUEUE = 1
    Crowds = FALSE
    Cables = {3000}
    Takes = {"AVS"}
    MaxFailed = 0
    Ports = {"p1"}
    EXP_FAILS_MUX_RESET = 1
    EXP_FAILS_RECOVER = 1
    FIND_TRIES = 0
    Troubles = {}
SPECIFICATION BladesSpec
INVARIANTS
    GrantsWhatWasAsked
