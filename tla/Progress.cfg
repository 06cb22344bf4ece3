SPECIFICATION ProgressSpec
CONSTANTS
    m1 = m1
    m2 = m2
    c1 = c1
    w1 = w1
    None = None
PROPERTIES DurableWorkDone WorkersCatchUp
CHECK_DEADLOCK FALSE
