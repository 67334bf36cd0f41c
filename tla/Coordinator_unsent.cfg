SPECIFICATION Spec
CONSTANTS
  Requests = {"r1"}
  Events = {"e1"}
  Users = {"ann", "bob"}
  Results = {a1}
  Slack = slack
  CliProcs = {}
  Source <- FromSlack
  RequesterOf <- ByBob
  OwnerOf <- AboutAnn
  Legacy <- NoLegacy
  MaxFaults <- OnePost
  DirectoryShrinks = FALSE
  Absent = Absent
  Torn = Torn
  NoResult = NoResult
  Nobody = Nobody
  None = None
INVARIANT CompletedMeansSent
