SPECIFICATION Spec
CONSTANTS
    Tracks = {t1}
    Callers = {c1}
    Versions = {1, 2}
    Cards = {"a", "b", "c", "d"}
    Directions = {"fwd", "back"}
    PackCards <- MCPackCards
    PackageCards <- MCPackageCards
    DirectionOf <- MCDirectionOf
    Choices = {{"a"}, {"a", "b"}}
    Plans = {0, 1}
    NoPlan = 0
    None = None
    MaxGenerations = 4
    Rollbacks = FALSE
    Ops = {"create", "update", "integrate", "plan", "delete"}
CHECK_DEADLOCK FALSE
INVARIANT SelectionConsistent
PROPERTY RemovalSparesCheckedPins
