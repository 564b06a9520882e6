SPECIFICATION Spec
CONSTANTS
    Evaluators = {e1, e2}
    Main = e1
    Interval = 2
    Unwinds = FALSE
    MaxSpans = 3
    e1 = e1
    e2 = e2
INVARIANTS
    SpansNest
CHECK_DEADLOCK FALSE
