SPECIFICATION Spec
CHECK_DEADLOCK FALSE
CONSTANTS
    Proc = {main, p1, p2}
    Main = main
    Code <- MCCode
    None = None
INVARIANTS
    StatusOutlivesUsers
