CONSTANTS
    a = a  b = b  f = f  g = g
    None = None
    Crs = {a, b}
    Fds = {f, g}
    Scenarios <- Programs
SPECIFICATION FairSpec
INVARIANT NothingLeftBehind
INVARIANT OutcomeIsTrue
PROPERTY IoCallsEnd
CHECK_DEADLOCK FALSE
