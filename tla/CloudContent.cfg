CONSTANTS
    f1 = f1
    f2 = f2
    w1 = w1
    w2 = w2
    NoWorker = NoWorker
    Files = {f1, f2}
    Workers = {w1, w2}
    MaxGroups = 2
    MaxEdits = 1
    MaxFaults = 1
SPECIFICATION ContentSpec
INVARIANTS DeletionIsTrue SparedStays GroupsAct 
PROPERTY ContentSettles
CHECK_DEADLOCK FALSE
