SPECIFICATION Spec
CONSTANTS
    Systems = {TRUE, FALSE}
    ByteRange = 3
    Usages <- StringsOrAny
    MaxLength = 2
    MaxPosition = 7
INVARIANTS TypeOK ReadsWhatWasWritten WireIsLittleEndian
PROPERTIES TransmitKeepsMessage PositionStaysInside
\* A read past the end may end the program.
CHECK_DEADLOCK FALSE
