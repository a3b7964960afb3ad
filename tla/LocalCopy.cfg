CONSTANTS
    o1 = o1
    e1 = e1
    NoContent = NoContent
    Old = o1
    Edits = {o1, e1}
    MaxEdits = 2
    MaxFaults = 1
    MaxJobs = 1
SPECIFICATION Spec
INVARIANTS ContentKept  OnlyCopyHeld
PROPERTIES RowSettles JobEnds
CHECK_DEADLOCK FALSE
