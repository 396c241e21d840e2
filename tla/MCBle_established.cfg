CONSTANTS
    Profiles = {1, 2}
    Peers = {p1, p2}
    Conns = {c1, c2}
    NULL = NULL
    MaxPaired = 4
    StoredBonds = {}
    PairingTicks = 1
SPECIFICATION Spec
INVARIANT EstablishedIsEncrypted
