SPECIFICATION Spec
CONSTANTS
    Peer = {p1, p2, p3}
    Identifier = {hello}
    ByteRange = 2
    MaxListens = 1
    MaxConnects = 3
    ReceiveBound = 1
    SendBound = 0
INVARIANT CallbackNamesSender
CHECK_DEADLOCK FALSE
