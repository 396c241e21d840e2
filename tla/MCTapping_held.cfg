CONSTANTS
    KC_A = KC_A
    KC_B = KC_B
    KC_C = KC_C
    KC_D = KC_D
    KC_LSFT = KC_LSFT
    KC_NO = KC_NO
    NoKey = NoKey
    Positions = {1, 2, 3}
    Layers = {0, 1}
    Codes = {KC_A, KC_B, KC_C, KC_D}
    Mods = {KC_LSFT}
    Usages = {}
    keymaps <- ModTapOnLayer
    KEYBOARD_REPORT_KEYS = 6
    TAPPING_TERM = 2
    TAPPING_TOGGLE = 2
    WAITING_BUFFER_SIZE = 4
    MaxCount = 3
    Clock = 8
SPECIFICATION TracedSpec
INVARIANT KeysAreHeld
