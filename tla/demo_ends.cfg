SPECIFICATION DemoSpec
CONSTANTS
    Identifier = {helloMessage}
    MaxConnects = 1
    ReceiveBound = 0
    SendBound = 1
    slot = slot
    helloMessage = helloMessage
PROPERTY ProgramEnds
CHECK_DEADLOCK FALSE
