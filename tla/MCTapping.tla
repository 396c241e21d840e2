----------------------------- MODULE MCTapping ------------------------------
(* Tapping on small keymaps.                                               *)
EXTENDS TracedTapping

CONSTANTS KC_A, KC_B, KC_C, KC_D, KC_LSFT

key(code) == [kind |-> "key", mods |-> {}, code |-> code]
mod_tap(code) == [kind |-> "mt", mods |-> {KC_LSFT}, code |-> code]
layer_tap(layer, code) == [kind |-> "lt", layer |-> layer, code |-> code]
on_layer(kind, layer) == [kind |-> kind, layer |-> layer]
trans == [kind |-> "trans"]

\* Every kind of key with two meanings, on three layers.
TapKeys == [layer \in 0..2 |->
    CASE layer = 0 -> <<on_layer("osl", 1), mod_tap(KC_B), layer_tap(2, KC_C)>>
      [] layer = 1 -> <<key(KC_LSFT), on_layer("tg", 1), on_layer("tt", 1)>>
      [] layer = 2 -> <<key(KC_D), trans, trans>>]

\* A mod-tap key on a momentary layer.
ModTapOnLayer == [layer \in 0..1 |->
    CASE layer = 0 -> <<on_layer("mo", 1), key(KC_A), key(KC_C)>>
      [] layer = 1 -> <<trans, mod_tap(KC_B), trans>>]

\* A toggle key on a one-shot layer.
ToggleOnOneshot == [layer \in 0..1 |->
    CASE layer = 0 -> <<on_layer("osl", 1), key(KC_A), key(KC_C)>>
      [] layer = 1 -> <<trans, on_layer("tg", 1), key(KC_D)>>]
=============================================================================
