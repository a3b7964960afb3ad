CONSTANTS
    w1 = w1
    w2 = w2
    t1 = t1
    pa = pa
    pb = pb
    y1 = y1
    d1 = d1
    d2 = d2
    Sweep = Sweep
    None = None
    NoWorker = NoWorker
    Workers = {w1, w2}
    MaxFaults = 2
    MaxForeign = 1
SPECIFICATION JobsSpec
INVARIANTS PlainCopiesOnce  RetiredOwnsNothing NoChangeForgotten
   
CHECK_DEADLOCK FALSE
