SPECIFICATION LiveSpec
CONSTANTS
  Guests = {alice}
  Operators = {op}
  Commands = {"provision", "activate", "snapshot", "restore", "start", "stop"}
  Manifests = {"none", "plain", "bad"}
  Snapshots = {s1, s2, s3}
  Addresses = {1}
  MaxWrites = 1
  MaxFaults <- PowerDiskVmError
  Absent = Absent
  Empty = Empty
  None = None
INVARIANT DiskHasOneUser
PROPERTY ImplementsGuestDisk
PROPERTY WholeSnapshotIsKept
PROPERTY FailedGuestComesBack
PROPERTY ActivatedGuestRuns
