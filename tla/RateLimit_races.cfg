\* Two threads receive messages while the timer and a start clear the counters.
SPECIFICATION Spec
CONSTANTS
    Threads = {t1, t2}
    Depth = 2
    Limit <- Limits
    Counts = {1, 2}
    MaxCounter = 1
SYMMETRY Symmetry
INVARIANTS TypeOK Accounted Limited OneFirstFault
