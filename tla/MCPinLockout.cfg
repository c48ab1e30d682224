SPECIFICATION FairSpec
CONSTANTS
  Requests = {r1, r2, r3}
  Pins = {p1}
  Malformed = malformed
  NoPin = noPin
  NoVault = noVault
  MaxAttempts = 3
  LockoutTicks = 2
  MaxFaults = 2
INVARIANTS
  TypeOK
  AttemptBudget
  UnexpiringCounter
PROPERTIES
  LockoutDrains
  LockoutEnds
