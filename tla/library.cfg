SPECIFICATION Spec
CONSTANTS
    Server = {s1, s2}
    Client = {c1, c2}
    ServerTerminates = 2
    ClientTerminates = 2
    InitMayFail = TRUE
INVARIANT CountIsHolders
\* A program may end with all its objects gone.
CHECK_DEADLOCK FALSE
