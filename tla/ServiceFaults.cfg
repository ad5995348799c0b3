CONSTANTS
  h1 = h1
  h2 = h2
  site = site
  p1 = p1
  n1 = n1
  n2 = n2
  p2 = p2
  r1 = r1
  r2 = r2
  NoName = NoName
  Untracked = Untracked
  Absent = Absent
  Empty = Empty
  Garbled = Garbled
  NoProcesses = NoProcesses
  Hosts <- TwoPublic
  PublicIPs <- TwoPublic
  Owners <- TwoOwners
  Names <- OneName
  Numeric <- NoNames
  TestLoops <- NoLoops
  QueueCap = 1
  PollLimit = 1
  Readings <- OneReading
  Uploading = TRUE
  Faults = {"list", "net", "write"}
SPECIFICATION Spec
INVARIANTS UploadNames TypeOK LockHeld LookupOnce NamesAgree
PROPERTIES ResolutionSpec PollRepairs
SYMMETRY Alike
