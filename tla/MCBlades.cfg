CONSTANTS
    Bundled = TRUE
    Pages = 2
    PerPage = 2
    TRIES = 3
    WAIT_MAX = 2
    NoStretch = {TRUE, FALSE}
    HasCrc = {TRUE, FALSE}
    MaxBad = 1
    Configs <- Powers
    Commands = {"SRC_CAP", "CLEAR_FAULTS", "RESET", "HARD_RESET"}
    CMD_QUEUE = 1
    Crowds = FALSE
    Cables = {3000, 5000}
    Takes = {"FIXED"}
    MaxFailed = 1
    Ports = {"p1", "p2"}
    EXP_FAILS_MUX_RESET = 2
    EXP_FAILS_RECOVER = 3
    FIND_TRIES = 1
    Troubles = {"transfer", "deaf", "glitch", "cut"}
SPECIFICATION BladesSpec
INVARIANTS
    HeaderMeansWhole
    StartsWhatWasChecked
    PowerPromises
    ClearedComesBack
    ContractWithinLimit
    RightChannel
PROPERTY NoneByItself
