CONSTANTS
  p1 = p1
  g1 = g1
  g2 = g2
  none = none
  Pids <- OnePid
  Programs <- TwoPrograms
  NoName = none
  Loads = {0, 2}
  Gaps = {1, 2}
  KeepFor = 2
  MaxTime = 8
SPECIFICATION Spec
INVARIANTS ExcessBounded UsageSound NamedTogether ReadReported
