CONSTANTS
  t = t
  u = u
  d1 = d1
  Pids = {1, 2}
  Sockets <- TwoSockets
  Keys <- ThreeKeys
  Datagrams <- OneFlow
  Port <- Https
  HostOf <- OneHost
  Builds <- OnLinux
  MaxCount = 2
  MaxOwed = 2
  Faults = {"ss"}
  Gaps = {1}
  EvictAfter = 1
  MaxTime = 3
SPECIFICATION Spec
INVARIANT NoneInvented
