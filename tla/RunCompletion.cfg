CONSTANTS
    MaxWorkers = 3
    a = a  b = b  d = d  t = t
    Threads = {t}
    Crs = {a, b, d}
    Daemons = {d}
    Timers = {1, 2, 3, 4, 5, 6}
    Horizon = 2
    Programs <- OnlySpawning
    None = None
SPECIFICATION Spec
PROPERTY RunReturnsWhenDone
CHECK_DEADLOCK FALSE
