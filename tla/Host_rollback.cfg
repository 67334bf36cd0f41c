SPECIFICATION Spec
CONSTANTS
  Guests = {alice}
  Operators = {op}
  Commands = {"provision", "activate", "snapshot", "restore", "start", "stop"}
  Manifests = {"plain"}
  Snapshots = {s1, s2}
  Addresses = {1}
  MaxWrites = 1
  MaxFaults <- OneVm
  Absent = Absent
  Empty = Empty
  None = None
INVARIANT SnapshotOfStoppedDisk
SYMMETRY SnapshotSymmetry
