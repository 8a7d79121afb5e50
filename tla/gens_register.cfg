SPECIFICATION Spec
CONSTANTS
    Gens = {g1, g2, g3, g4}
    NoGen = NoGen
    Readers = {r1}
    Switchers = {s1, s2}
    MaxRestarts = 2
    MaxFaults = 0
    CancelReads = FALSE
    CancelDrains = TRUE
SYMMETRY Symmetry
CHECK_DEADLOCK FALSE
INVARIANTS ReadersFollowPointer SwitchAfterConnectionsClose
PROPERTIES NoLostActivation ImplementsRegister
