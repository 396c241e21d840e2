------------------------------ MODULE MCBtKeys ------------------------------
EXTENDS BtKeys, FiniteSets, TLC

CONSTANTS k1, k2, k3, k4

\* Two keys BT_1, one BT_2 and one BT_CLEAR.
KeyCodes == [k \in Keys |-> CASE k \in {k1, k2} -> 1 [] k = k3 -> 2 [] k = k4 -> BT_CLEAR]

\* The two keys BT_1 have the same code.
Symmetry == Permutations(Conns) \cup Permutations({k1, k2})

\* Bound: no more than two Bluetooth keys are down at a time.
FewDown == Cardinality(DOMAIN held) <= 2

\* Bound: Bluetooth keys are used with the identities made, and passkeys
\* typed with no Bluetooth key used since the start of the clock.
KeysUnused == held = <<>> /\ time = 0 /\ \A c \in Codes : press_times[c] = 0
NoPasskeyTyped == open = {} /\ passkey_digits_left = 0 /\ typed = <<>>
OneAtATime ==
    /\ KeysUnused \/ NoPasskeyTyped
    /\ KeysUnused \/ ids = [p \in Profiles |-> "made"]
=============================================================================
