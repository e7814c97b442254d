CONSTANTS
    a2 = a2
    Cell = {m1, m2, m3, m4}
    NoRule = NoRule
    Opts <- MCOpts
    Addr <- MCAddr
    First = 13514
    LastDay = 15343
    Today0 <- Jan1
    Tick = 21601
    Beside <- OldDate
    Host = {0, 1, 2}
    Port = {0, 1, 256}
    Number = {1}
    Garbage = {0, 1}
    Writer = {w1, w2}
    Text <- MCText
    Admin = {a1, a2}
    Cpu = {k1}
    Addr17 = {1}
    Port17 = {53, 80}
    MaxSets = 2
CONSTRAINT CountersNear
SYMMETRY CellSymmetry
SPECIFICATION MCSpec
INVARIANTS TablesSound MatchesDescribed BansHold BandSound
PROPERTIES CellsKept ImplementsPolicy DatesSound ModuleLifeSound
\* A crash and unloading are final, the clock stops on the last day, and a rule in the
\* kernel is the end of its command.
CHECK_DEADLOCK FALSE
