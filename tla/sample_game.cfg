SPECIFICATION GameSpec
CONSTANTS
    Thread = {t1, t2}
    Main = main
    Socket = {s1, s2}
    None = none
    Type = {1, 2}
    NoType = notype
    MaxStarts = 1
INVARIANT EndsCleanly
PROPERTY StopEndsGame
\* The program ends, or dies.
CHECK_DEADLOCK FALSE
