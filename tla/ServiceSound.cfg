CONSTANTS
  h1 = h1
  h2 = h2
  site = site
  p1 = p1
  n1 = n1
  n2 = n2
  p2 = p2
  r1 = r1
  r2 = r2
  NoName = NoName
  Untracked = Untracked
  Absent = Absent
  Empty = Empty
  Garbled = Garbled
  NoProcesses = NoProcesses
  Hosts <- TwoPublic
  PublicIPs <- TwoPublic
  Owners <- OneOwner
  Names <- OneName
  Numeric <- NoNames
  TestLoops <- OneLoop
  QueueCap = 1
  PollLimit = 2
  Readings <- TwoReadings
  Uploading = FALSE
  Faults = {"net"}
SPECIFICATION FairSpec
INVARIANTS DiskCurrent DiskConsistent
PROPERTIES LookupsFinish StopEnds
