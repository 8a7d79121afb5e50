SPECIFICATION FairSpec
CONSTANTS
    Gens = {g1, g2}
    NoGen = NoGen
    Readers = {r1}
    Switchers = {s1, s2}
    MaxRestarts = 0
    MaxFaults = 1
    CancelReads = FALSE
    CancelDrains = FALSE
PROPERTY CallsReturn
CHECK_DEADLOCK FALSE
