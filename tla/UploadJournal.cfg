CONSTANTS
    j1 = j1
    j2 = j2
    t1 = t1
    t2 = t2
    c1 = c1
    c2 = c2
    NoJob = NoJob
    NoThread = NoThread
    NoContent = NoContent
    Jobs = {j1, j2}
    Threads = {t1}
    Contents = {c1, c2}
    Edits = {c2}
    MaxObjects = 3
    MaxForeign = 1
    MaxGen = 2
    MaxLost = 1
    Large = {}
    Overlap = FALSE
    Checksums = FALSE
    Damage = TRUE
SYMMETRY Symmetry
SPECIFICATION Spec
INVARIANTS OneObjectPerIntent NoOrphan
PROPERTY DeletesAreSuperseded
