CONSTANTS
    KC_A = KC_A
    KC_B = KC_B
    KC_C = KC_C
    KC_LSFT = KC_LSFT
    KC_LGUI = KC_LGUI
    AUDIO_MUTE = AUDIO_MUTE
    KC_NO = KC_NO
    Positions = {1, 2, 3, 4, 5}
    Layers = {0, 1, 2}
    Codes = {KC_A, KC_B, KC_C}
    Mods = {KC_LSFT, KC_LGUI}
    Usages = {AUDIO_MUTE}
    keymaps <- Keymaps
    KEYBOARD_REPORT_KEYS = 2
SPECIFICATION Spec
INVARIANTS TypeOK ReportIsHeld HostIsHeld LayerIsHeld
PROPERTY PressIsTyped
