CONSTANTS
    NUM_PORTS = 3
    BASE_RESERVE = 2
    PORT_LIMIT_MIN_W = 1
    UNTHROTTLE_STEP_MIN = 1
    MaxW = 5
    Prio <- PeersPrio
    PROBE_MAX_ATTEMPTS = 1
    UPDATE_ROUNDS_MAX = 1
    SILENT_POLLS_MAX = 1
    Found = {"GEN_2"}
    Identities <- CurrentIds
    ChargeRules = {}
    Flaky = {}
    Limits = {5}
    Volts = {5}
    Ceilings = {0}
    Totals = {9}
    Asks = {2, 5}
    Seatings <- AllSeated
    BootOff <- NobodyOff
    MaxBoots = 0
    Events = {"attach", "unplug"}
SPECIFICATION Spec
PROPERTIES
    FreedFlowTopDown
