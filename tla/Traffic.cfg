CONSTANTS
  t = t
  u = u
  d1 = d1
  Pids = {1, 2}
  Sockets <- TwoSockets
  Keys <- ThreeKeys
  Datagrams <- OneFlow
  Port <- Https
  HostOf <- OneHost
  Builds <- AllBuilds
  MaxCount = 1
  MaxOwed = 1
  Faults = {"ss", "conntrack", "missed", "net"}
  Gaps = {1, 2}
  EvictAfter = 1
  MaxTime = 3
SPECIFICATION Spec
INVARIANTS TypeOK CountedOnce NoneLost RightHolder WindowAgrees ConnsWithinDomains SamplesCounted
CONSTRAINT InPlay
