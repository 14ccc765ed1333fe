CONSTANTS
    a = a  b = b  f = f  g = g
    None = None
    Crs = {a, b}
    Fds = {f, g}
    Scenarios <- Neighbours
SPECIFICATION Spec
INVARIANT OutcomeIsTrue
CHECK_DEADLOCK FALSE
