CONSTANTS
    Cell = {m1, m2, m3}
    NoRule = NoRule
    Opts <- MCOpts
    Addr <- MCAddr
CONSTRAINT CountersNear
SYMMETRY CellSymmetry
SPECIFICATION Spec
\* A crash and unloading are final.
CHECK_DEADLOCK FALSE
PROPERTY InsertKeepsRules
