CONSTANTS
    First = 13515
    LastDay = 15340
    Today0 <- Jan2
    Tick = 21601
    Beside = {}
SPECIFICATION DateSpec
INVARIANTS DateIsLocal
\* The clock stops on the last day.
CHECK_DEADLOCK FALSE
