\* One blade; the watchdog bites in the middle of a transfer, and nothing else fails.
CONSTANTS
    Ports = {"p1"}
    EXP_FAILS_MUX_RESET = 2
    EXP_FAILS_RECOVER = 3
    FIND_TRIES = 1
    Troubles = {"cut"}
SPECIFICATION BackplaneSpec
INVARIANT RebootKeepsPower
