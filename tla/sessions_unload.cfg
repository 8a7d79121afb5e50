SPECIFICATION FairSpec
CONSTANTS
    a1 = a1
    a2 = a2
    a3 = a3
    s1 = s1
    s2 = s2
    s3 = s3
    Starter = Starter
    None = None
    Answerers = {a1, a2}
    Subscribers = {s1}
    Outsiders = {}
    Questions = {"q"}
    MaxVersion = 2
    Unloads = TRUE
    Deletes = TRUE
    Drops = TRUE
INVARIANT ReplyAgreesWithLog
PROPERTY RequestsSettle
CHECK_DEADLOCK FALSE
