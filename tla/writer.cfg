SPECIFICATION FairSpec
CONSTANTS
    w1 = w1
    w2 = w2
    w3 = w3
    Writers = {w1, w2, w3}
    HA = HA
    Unloader = Unloader
    Nobody = Nobody
    MaxBackups = 1
    Timeouts = TRUE
    Unloads = TRUE
    SlowReaders = TRUE
    Cancellable = {w1}
CHECK_DEADLOCK FALSE
INVARIANTS GateOwnership AcknowledgedStored BoundedCollateral
PROPERTIES ArchiveFrozen CallsReturn
