CONSTANTS
    MATRIX_ROWS = 1
    MATRIX_COLS = 1
    BootTicks = 1
    IdleTicks = 2
    DisconnTicks = 3
    PromptQueue = TRUE
    p1 = p1
    Profiles = {1}
    Peers = {p1}
    Conns = {c1, c2}
    NULL = NULL
    MaxPaired = 4
    PairingTicks = 1
    BtKey <- PlainKey
    StoredBonds <- Paired
    ShortTaps = FALSE
SPECIFICATION FairSpec
PROPERTY KeyPressReconnects
