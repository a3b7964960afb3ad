SPECIFICATION FairSpec
CONSTANTS
  r1 = r1
  r2 = r2
  files = files
  stats = stats
  Domains = {files, stats}
  Changes <- BothChange
  PageLimit = 1
  Requests = {}
  MaxRevision = 2
  MaxWire = 1
  MaxFaults = 1
  Prompt = FALSE
PROPERTIES RefreshEnds
