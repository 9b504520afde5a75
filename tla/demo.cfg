SPECIFICATION DemoSpec
CONSTANTS
    Identifier = {helloMessage}
    MaxConnects = 1
    ReceiveBound = 0
    SendBound = 1
    slot = slot
    helloMessage = helloMessage
INVARIANTS LoopsHaveHosts
PROPERTIES ServerThreadEnds ClientLearns
\* An exception ends the program.
CHECK_DEADLOCK FALSE
