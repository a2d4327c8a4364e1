\* A fan that nothing has changed for half the range of the clock, 24.8 days.
CONSTANTS
    WRAP = 16
    FAN_MIN_HOLD_MS = 2
    WritesFail = FALSE

SPECIFICATION FanSpec
INVARIANT HotIsCooled
