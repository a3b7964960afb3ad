SPECIFICATION SafeSpec
CONSTANTS
  j1 = j1
  w1 = w1
  w2 = w2
  p1 = p1
  p2 = p2
  t1 = t1
  t2 = t2
  t3 = t3
  NoToken = NoToken
  NoJob = NoJob
  Jobs = {j1}
  Action <- OneUpload
  Workers = {w1, w2}
  Processes = {p1, p2}
  Home <- TwoHomes
  Tokens = {t1, t2, t3}
  Lease = 3
  Stale = 1
  MaxAttempts = 1
  MaxFaults = 1
  Punctual = TRUE
SYMMETRY Symmetry
INVARIANTS TypeOK SingleWriter PunctualIsExclusive
PROPERTIES TerminalIsFinal LiveClaimKept 
