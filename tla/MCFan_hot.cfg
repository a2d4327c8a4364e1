\* The write that switches the fan on by hand fails.
CONSTANTS
    WRAP = 16
    FAN_MIN_HOLD_MS = 2
    WritesFail = TRUE

SPECIFICATION FanSpec
INVARIANT HotIsCooled
