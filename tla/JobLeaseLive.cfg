SPECIFICATION LiveSpec
CONSTANTS
  j1 = j1
  w1 = w1
  w2 = w2
  p1 = p1
  p2 = p2
  t1 = t1
  t2 = t2
  t3 = t3
  NoToken = NoToken
  NoJob = NoJob
  Jobs = {j1}
  Action <- OneUpload
  Workers = {w1, w2}
  Processes = {p1}
  Home <- OneHome
  Tokens = {t1, t2, t3}
  Lease = 2
  Stale = 0
  MaxAttempts = 1
  MaxFaults = 1
  Punctual = TRUE
PROPERTIES ReopenedByApprovalOnly NoJobIsStranded
