SPECIFICATION Spec
CONSTANTS
    t1 = t1
    t2 = t2
    c1 = c1
    Recorders = {1, 2, 3}
    Tracks = {t1, t2}
    Profiles = {{t1}, {t2}}
    Cards = {c1}
    MaxInFlight = 3
    MaxTime = 2
    ClockSteps = TRUE
    Creates = TRUE
    Deletes = TRUE
CHECK_DEADLOCK FALSE
INVARIANT ProjectionMatchesLog
PROPERTY OnlyOvertakingDrifts
