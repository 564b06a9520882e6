SPECIFICATION Spec
CONSTANTS
    Programs <- ReusePrograms
    Fuel = 60
INVARIANTS
    Lexical
CHECK_DEADLOCK FALSE
