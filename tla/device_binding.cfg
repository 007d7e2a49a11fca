SPECIFICATION Spec
CONSTANTS
  d1 = d1
  d2 = d2
  e1 = e1
  e2 = e2
  None = None
  Device = {d1, d2}
  Entry = {e1, e2}
  Inventories <- MCInventories
  First <- Shared
  UID = {1, 2, 3, 4, 5, 6}
  MaxChanges = 2
INVARIANTS TypeOK OneHolder
PROPERTIES DisplacedWasLost ProofIsKept BindingsSettle
