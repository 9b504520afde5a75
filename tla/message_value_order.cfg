SPECIFICATION Spec
CONSTANTS
    Systems = {FALSE}
    ByteRange = 2
    Usages <- ValuesOnly
    MaxLength = 1
    MaxPosition = 0
INVARIANT ReadsWhatWasWritten
\* A read past the end may end the program.
CHECK_DEADLOCK FALSE
