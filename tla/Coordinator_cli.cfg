SPECIFICATION Spec
CONSTANTS
  Requests = {r1, "r2"}
  Events = {"e1", "old"}
  Users = {"ann", "bob"}
  Results = {a1}
  Slack = slack
  CliProcs = {cli}
  Source <- OldFromCli
  RequesterOf <- ByBob
  OwnerOf <- AboutAnn
  Legacy <- OneLegacy
  MaxFaults <- NoFaults
  DirectoryShrinks = FALSE
  Absent = Absent
  Torn = Torn
  NoResult = NoResult
  Nobody = Nobody
  None = None
INVARIANT OneVerdict
