SPECIFICATION Spec
CONSTANTS
  Guests = {alice, bob, carol}
  Operators = {op}
  MaxKeys = 3
  MaxFaults <- OneEach
  Absent = Absent
  Torn = Torn
  None = None
INVARIANT KeyNamesItsGuest
INVARIANT PairMatches
PROPERTY InstalledKeyConnects
PROPERTY ConnectionsAreKept
PROPERTY ReconcileHeals
SYMMETRY GuestSymmetry
