SPECIFICATION Spec
CONSTANTS
    a1 = a1
    a2 = a2
    a3 = a3
    s1 = s1
    s2 = s2
    s3 = s3
    Starter = Starter
    None = None
    Answerers = {a1, a2, a3}
    Subscribers = {s1, s2}
    Outsiders = {a3}
    Questions = {"q"}
    MaxVersion = 2
    Unloads = FALSE
    Deletes = TRUE
    Drops = TRUE
SYMMETRY Symmetry
CHECK_DEADLOCK FALSE
INVARIANTS OneAnswerPerVersion SubscribersAttached
