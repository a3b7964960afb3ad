SPECIFICATION SafeSpec
SYMMETRY Symmetry
CONSTANTS
  r1 = r1
  r2 = r2
  files = files
  stats = stats
  Domains = {files, stats}
  Changes <- RealChanges
  PageLimit = 1
  Requests = {}
  MaxRevision = 2
  MaxWire = 1
  MaxFaults = 1
  Prompt = FALSE
INVARIANTS NoEventMissed
