CONSTANTS
    k1 = k1
    k2 = k2
    k3 = k3
    k4 = k4
    Keys = {k1, k2, k3, k4}
    BT_CLEAR = BT_CLEAR
    keycode <- KeyCodes
    CONFIG_BT_ID_MAX = 3
    QUAZI_BT_TAP_TIME = 3
    Wrap = 8
    MaxHold = 9
    Conns = {c1, c2}
    NULL = NULL
    Digits = {0, 7}
    PasskeyDigits = 3
SPECIFICATION Spec
CONSTRAINTS OneAtATime FewDown
SYMMETRY Symmetry
INVARIANTS
    TypeOK
    SelectedIsStored
    ProfilesHaveIds
    PasskeyIsTyped
    PasskeyIsGiven
PROPERTIES
    OnlyHoldsPair
    HoldsPair
