SPECIFICATION Spec
CONSTANTS
    Thread = {t1, t2}
    Main = main
    Socket = {s1, s2}
    None = none
    Type = {ty}
    NoType = notype
    MaxStarts = 2
SYMMETRY AsioSymmetry
INVARIANTS TypeOK OneReadPerSocket AcceptGoesOn ReadersAreListed MapRacesNeedCause
PROPERTY SessionsSpec
\* A stopped or crashed server stays as it is.
CHECK_DEADLOCK FALSE
