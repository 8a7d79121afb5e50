SPECIFICATION Spec
SYMMETRY CallerSymmetry
CONSTANTS
    Tracks = {t1}
    Callers = {c1, c2}
    Versions = {1, 2}
    Cards = {"a", "b", "c"}
    Directions = {"fwd"}
    PackCards <- MCPackCards
    PackageCards <- MCPackageCards
    DirectionOf <- MCDirectionOf
    Choices = {{"a"}}
    Plans = {0, 1}
    NoPlan = 0
    None = None
    MaxGenerations = 2
    Rollbacks = TRUE
    Ops = {"create", "update", "integrate", "plan", "delete"}
CHECK_DEADLOCK FALSE
INVARIANTS RecordedGenerationHadPin OnlyOvertakenWiden OnlyOvertakenUndoPlans
PROPERTY DeletedForGood
