SPECIFICATION Spec
CONSTANTS
    a1 = a1
    a2 = a2
    w1 = w1
    w2 = w2
    Anchors = {a1, a2}
    Workers = {w1, w2}
    Duration = 1
    Retention = 1
    MaxPosts = 2
    Setups <- LongWait
CHECK_DEADLOCK FALSE
INVARIANT PurgedAfterItsLife
