SPECIFICATION Spec
CONSTANTS
    Thread = {t1, t2}
    Main = main
    MaxConnects = 2
INVARIANTS TypeOK LoopsAreConnects OnceIsMemorySafe ConnectedHasConnection
PROPERTIES DisconnectEnds MessagesAreRead
\* A disconnected client and a dead program stay as they are.
CHECK_DEADLOCK FALSE
