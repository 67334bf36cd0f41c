SPECIFICATION LiveSpec
CONSTANTS
  Questions = 2
  Messages = {m1, stop, anon}
  Stops = {stop}
  Anonymous = {anon}
  Handlers = {h1}
  Stamps = {t1}
  Overlap = FALSE
  MaxProcessed = 2
  MaxRepeats = 1
  MaxReplies = 1
  MaxStarts = 2
  MaxKills = 1
  MaxFails = 1
  Absent = Absent
  Torn = Torn
  None = None
INVARIANT FileIsConsistent
INVARIANT ProfileIsComplete
INVARIANT ConfirmedIsInProfile
PROPERTY FallbackOnce
PROPERTY ImplementsInterview
PROPERTY QuestionIsPursued
CHECK_DEADLOCK FALSE
