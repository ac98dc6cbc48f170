CONSTANTS
    Threads = {t1}
    Sockets = {s1, s2}
    Blocks = {b1, b2, b3}
    Short = Short
    Long = Long
    NULL = NULL
    MaxRef = 4
SPECIFICATION SkSpec
INVARIANT EachBlockOnce
INVARIANT CountCoversSockets
CHECK_DEADLOCK FALSE
