SPECIFICATION Spec
CONSTANTS
    Gens = {g1, g2, g3}
    NoGen = NoGen
    Readers = {r1, r2}
    Switchers = {s1, s2}
    MaxRestarts = 1
    MaxFaults = 1
    CancelReads = TRUE
    CancelDrains = TRUE
SYMMETRY Symmetry
CHECK_DEADLOCK FALSE
INVARIANT ProtocolInv
