CONSTANTS
  Keys = {k1, k2, k3}
  Values = {v1, v2}
  NoValue = NoValue
  Uses = {"scope", "rules"}
  Hashes <- Colliding
  MaxHash = 3
  InitCap = 1
  MaxCapacity = 16
  MaxEntries = 3
SPECIFICATION Spec
INVARIANTS
  TypeOK
  ProbesFindTheirEntries
  EmptySlotLeft
  TableInv
PROPERTIES
  FirstRuleStays
  ImplementsStack
CHECK_DEADLOCK FALSE
