SPECIFICATION Spec
CONSTANTS
    Identifier = {hello}
    MaxConnects = 2
    ReceiveBound = 2
    SendBound = 2
INVARIANTS TypeOK ConnectionIsLive
\* A crashed client stops for good.
CHECK_DEADLOCK FALSE
