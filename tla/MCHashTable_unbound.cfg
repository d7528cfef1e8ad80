CONSTANTS
  Keys = {k1, k2}
  Values = {v1, v2}
  NoValue = NoValue
  Uses = {"scope"}
  Hashes <- Colliding
  MaxHash = 1
  InitCap = 4
  MaxCapacity = 8
  MaxEntries = 2
SPECIFICATION Spec
INVARIANTS
  NeverCrashes
CHECK_DEADLOCK FALSE
