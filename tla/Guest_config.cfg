SPECIFICATION LiveSpec
CONSTANTS
  EnvKeys = {"k1", "k2"}
  Profiles = {"p1", "p2"}
  Tokens = {"t1", "t2"}
  Lists = {"l1", "l2"}
  Models = {"d1", "d2"}
  Manifests <- SomeManifests
  Settings = {"s1"}
  MaxFaults <- OneEach
  Absent = Absent
  Torn = Torn
  None = None
INVARIANT SettingsSurvive
PROPERTY ActivationApplies
PROPERTY ActivatedIsLive
