CONSTANTS
  Interval = 2
  Gaps = {1, 2}
  Volumes = {0, 3}
  MaxTime = 6
SPECIFICATION Spec
INVARIANTS TypeOK PayloadExact AckedSpaced PeriodsNest
PROPERTY LedgerSpec
