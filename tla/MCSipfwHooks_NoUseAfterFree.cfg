CONSTANTS
    Cell = {m1, m2}
    Null = Null
    Admin = {a1}
    Pkt = {p1}
    Kind = {k1}
    Opts <- DeleteOpts
    Knobs = {}
    Budget = 2
    MayUnload = FALSE
SPECIFICATION Spec
INVARIANTS NoUseAfterFree
CHECK_DEADLOCK FALSE
