SPECIFICATION LiveSpec
CONSTANTS
  Users = {"ann", "bob"}
  Requests = {r1}
  OwnerOf <- AboutAnn
  Commands = {c1}
  Life = 4
  Skew = 2
  SearchTime = 1
  MaxStarts = 2
  Offline = {1}
  MaxNow = 4
  Absent = Absent
  Torn = Torn
  None = None
INVARIANT TokenOutlivesSearch
INVARIANT SearchIsAllowed
INVARIANT TokenIsOfItsUser
PROPERTY EveryExecuteEnds
