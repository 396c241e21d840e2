----------------------------- MODULE MCActions ------------------------------
EXTENDS Actions

CONSTANTS KC_A, KC_B, KC_C, KC_LSFT, KC_LGUI, AUDIO_MUTE

key(code) == [kind |-> "key", mods |-> {}, code |-> code]
shifted(code) == [kind |-> "key", mods |-> {KC_LSFT}, code |-> code]
layer_key(kind, layer) == [kind |-> kind, layer |-> layer]
usage(page) == [kind |-> "usage", page |-> page, code |-> AUDIO_MUTE]

Keymaps == [layer \in 0..2 |->
    CASE layer = 0 -> <<layer_key("mo", 1), key(KC_A), key(KC_LSFT), key(KC_B), shifted(KC_A)>>
      [] layer = 1 -> <<Transparent, key(KC_C), layer_key("tg", 2), usage("consumer"),
                        layer_key("to", 2)>>
      [] layer = 2 -> <<Transparent, layer_key("df", 2), shifted(KC_LGUI), layer_key("to", 0),
                        [kind |-> "key", mods |-> {KC_LSFT, KC_LGUI}, code |-> KC_NO]>>]
=============================================================================
