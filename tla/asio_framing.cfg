SPECIFICATION Spec
CONSTANTS
    Systems = {TRUE, FALSE}
    Transports = {"tcp", "udp"}
    Truncates = "error"
    FieldSize = 2
    ByteRange = 4
    Types = {1}
    Items <- SmallItems
    MaxEdits = 2
    MaxSends = 2
    MaxStale = 1
    Chunk = 4
INVARIANTS TypeOK SizeIsWhatIsSent ReaderSurvives DatagramsAreWhole
PROPERTIES ChannelSpec AllArrive
\* A connection may have nothing left to carry.
CHECK_DEADLOCK FALSE
