CONSTANTS
    j1 = j1
    j2 = j2
    t1 = t1
    t2 = t2
    c1 = c1
    c2 = c2
    NoJob = NoJob
    NoThread = NoThread
    NoContent = NoContent
    Jobs = {j1, j2}
    Threads = {t1, t2}
    Contents = {c1, c2}
    Edits = {c2}
    MaxObjects = 3
    MaxForeign = 0
    MaxGen = 2
    MaxLost = 1
    Large = {c2}
    Overlap = TRUE
    Checksums = TRUE
    Damage = FALSE
SYMMETRY Symmetry
SPECIFICATION Spec
INVARIANTS OneOpenSend CurrentIsStored
