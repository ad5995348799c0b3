CONSTANTS
  c1 = c1
  c2 = c2
  c3 = c3
  i1 = i1
  i2 = i2
  i3 = i3
  NoFile = NoFile
  Unnamed = Unnamed
  Truncated = Truncated
  Callers <- TwoCallers
  Ids <- ThreeIds
  Habits = {"overlap"}
SPECIFICATION Spec
INVARIANT SameId
