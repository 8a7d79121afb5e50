SPECIFICATION StoreSpec
CONSTANTS
    ProfileIds = {p1, p2, p3}
    Found = {p1}
    Users = {u1, u2}
    Requests = {r1, r2, r3}
    Granted = {"owner", "viewer"}
    Keys = {"k"}
    Nobody = Nobody
    LegacyRows = {x1}
    Versions = {1, 2, 3}
    NoFile = NoFile
    MaxFaults = 1
SYMMETRY Symmetry
CHECK_DEADLOCK FALSE
INVARIANTS OwnerKept OnePersonalProfile ReportsHaveProfile UpgradeAtomic
PROPERTY LegacyOpens
