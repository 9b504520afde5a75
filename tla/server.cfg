SPECIFICATION Spec
CONSTANTS
    Peer = {p1, p2}
    Identifier = {hello, bye}
    ByteRange = 4
    MaxListens = 2
    MaxConnects = 3
    ReceiveBound = 1
    SendBound = 1
SYMMETRY PeerSymmetry
INVARIANTS TypeOK RegistryExact IDsPartitioned IDsBounded CallbackNamesSender HandleStaysValid
PROPERTY RegistrySpec
\* A crashed server stops for good.
CHECK_DEADLOCK FALSE
