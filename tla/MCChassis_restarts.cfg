CONSTANTS
    NUM_PORTS = 2
    BASE_RESERVE = 2
    PORT_LIMIT_MIN_W = 1
    UNTHROTTLE_STEP_MIN = 1
    MaxW = 5
    Prio <- SlotPrio
    PROBE_MAX_ATTEMPTS = 1
    UPDATE_ROUNDS_MAX = 1
    SILENT_POLLS_MAX = 1
    Found = {"GEN_3", "LOADER"}
    Identities <- TwoIds
    ChargeRules = {}
    Flaky = {"silent", "flip", "command"}
    Limits = {5}
    Volts = {5}
    Ceilings = {0}
    Totals = {20}
    Asks = {5}
    Seatings <- AllSeated
    BootOff <- OneOff
    MaxBoots = 1
    Events = {"attach", "enable"}
SPECIFICATION Spec
INVARIANTS
    WarmIsOn
PROPERTIES
    KeepsPower
