SPECIFICATION Spec
CONSTANTS
  Guests = {alice, bob}
  Operators = {op}
  Commands = {"provision", "activate"}
  Manifests = {"listed", "bad"}
  Snapshots = {s1}
  Addresses = {1, 2}
  MaxWrites = 0
  MaxFaults <- KillPowerUmountError
  Absent = Absent
  Empty = Empty
  None = None
INVARIANT DistinctAddresses
 
PROPERTY ProvisionedIsKept
