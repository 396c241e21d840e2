CONSTANTS
    MATRIX_ROWS = 2
    MATRIX_COLS = 2
    BootTicks = 1
    IdleTicks = 3
    DisconnTicks = 4
    PromptQueue = TRUE
SPECIFICATION FairSpec
PROPERTIES KeySeen TimeoutStops
