CONSTANTS
  host = host
  box = box
  p1 = p1
  p2 = p2
  p3 = p3
  NoFile = NoFile
  Truncated = Truncated
  Stopped = Stopped
  Spaces <- BothSpaces
  Home = host
  Blind <- Unread
  Pids <- ThreePids
  Habits = {"hurry"}
SPECIFICATION Spec
INVARIANT OneDaemon
