CONSTANTS
    NUM_PORTS = 2
    BASE_RESERVE = 2
    PORT_LIMIT_MIN_W = 1
    UNTHROTTLE_STEP_MIN = 1
    MaxW = 5
    Prio <- SlotPrio
    PROBE_MAX_ATTEMPTS = 1
    UPDATE_ROUNDS_MAX = 2
    SILENT_POLLS_MAX = 1
    Found = {"GEN_2", "GEN_3", "LOADER"}
    Identities <- UnsettledIds
    ChargeRules = {}
    Flaky = {}
    Limits = {5}
    Volts = {5}
    Ceilings = {0}
    Totals = {6, 20}
    Asks = {2, 5}
    Seatings <- AllSeated
    BootOff <- NobodyOff
    MaxBoots = 0
    Events = {"attach", "unseat", "commit"}
SPECIFICATION EitherSpec
PROPERTIES
    OwedIsPaid
    TripsEnd
