CONSTANTS
    Profiles = {1, 2}
    Peers = {p1}
    Conns = {c1, c2}
    NULL = NULL
    MaxPaired = 4
    StoredBonds = {}
    PairingTicks = 2
SPECIFICATION Spec
CONSTRAINT QueueBound
SYMMETRY Symmetry
INVARIANTS TypeOK RefsBalanced ConnHasLink AdvertisesAlone AdvertisingIsActive CallsLastRequested ConnIsRequested PairingAdvIsTimed
