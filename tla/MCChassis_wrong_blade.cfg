CONSTANTS
    NUM_PORTS = 2
    BASE_RESERVE = 2
    PORT_LIMIT_MIN_W = 1
    UNTHROTTLE_STEP_MIN = 1
    MaxW = 5
    Prio <- SlotPrio
    PROBE_MAX_ATTEMPTS = 1
    UPDATE_ROUNDS_MAX = 1
    SILENT_POLLS_MAX = 2
    Found = {"GEN_3", "LOADER"}
    Identities <- TwoIds
    ChargeRules = {"done"}
    Flaky = {"mux"}
    Limits = {5}
    Volts = {5}
    Ceilings = {0}
    Totals = {20}
    Asks = {5}
    Seatings <- AllSeated
    BootOff <- NobodyOff
    MaxBoots = 0
    Events = {"attach", "commit"}
SPECIFICATION Spec
PROPERTIES
    KeepsPower
