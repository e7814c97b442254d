CONSTANTS
    p1 = p1
    p2 = p2
    Cell = {m1, m2, m3}
    Null = Null
    Admin = {a1}
    Pkt = {p1, p2}
    Kind = {k1, k2}
    Opts <- MCOpts
    Knobs = {"Invalid"}
    Budget = 4
    MayUnload = TRUE
SPECIFICATION MCSpec
INVARIANTS HooksSound HitsCounted LinearVerdict
PROPERTIES AloneImplementsPolicy PacketLeaves
\* The administrator stops, and so does a module that is unloaded.
CHECK_DEADLOCK FALSE
