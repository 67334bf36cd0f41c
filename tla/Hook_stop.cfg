SPECIFICATION Spec
CONSTANTS
  Questions = 3
  Messages = {m1, stop}
  Stops = {stop}
  Anonymous = {}
  Handlers = {h1, h2}
  Stamps = {t1, t2}
  Overlap = TRUE
  MaxProcessed = 3
  MaxRepeats = 0
  MaxReplies = 0
  MaxStarts = 1
  MaxKills = 0
  MaxFails = 0
  Absent = Absent
  Torn = Torn
  None = None
PROPERTY StopIsKept
CHECK_DEADLOCK FALSE
