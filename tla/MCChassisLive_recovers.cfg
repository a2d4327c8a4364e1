CONSTANTS
    NUM_PORTS = 2
    BASE_RESERVE = 2
    PORT_LIMIT_MIN_W = 1
    UNTHROTTLE_STEP_MIN = 1
    MaxW = 3
    Prio <- SlotPrio
    PROBE_MAX_ATTEMPTS = 1
    UPDATE_ROUNDS_MAX = 1
    SILENT_POLLS_MAX = 1
    Found = {"GEN_2"}
    Identities <- CurrentIds
    ChargeRules = {}
    Flaky = {}
    Limits = {3}
    Volts = {3}
    Ceilings = {0}
    Totals = {3}
    Asks = {2}
    Seatings <- AllSeated
    BootOff <- NobodyOff
    MaxBoots = 0
    Events = {"attach", "unseat"}
SPECIFICATION LiveSpec
PROPERTIES
    ThrottledRecovers
