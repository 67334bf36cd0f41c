SPECIFICATION FairSpec
CONSTANTS
  Requests = {r1, r2}
  Events = {e1}
  Users = {"ann", "bob"}
  Results = {a1}
  Slack = slack
  CliProcs = {}
  Source <- FromSlack
  RequesterOf <- ByBob
  OwnerOf <- AboutAnn
  Legacy <- NoLegacy
  MaxFaults <- EachFault
  DirectoryShrinks = TRUE
  Absent = Absent
  Torn = Torn
  NoResult = NoResult
  Nobody = Nobody
  None = None
INVARIANT OneRecordPerEvent
INVARIANT LookupOnceAfterAck
INVARIANT ResultIsTheOwnersDecision
INVARIANT NoRepeatedMessage
INVARIANT AuditMatchesRecords
PROPERTY ImplementsSharedRequest
PROPERTY EveryRequestAnswered
PROPERTY EveryLookupEnds
PROPERTY EveryDecisionReported
