SPECIFICATION Spec
CONSTANTS
  Requests = {r1, r2}
  Pins = {p1}
  Malformed = malformed
  NoPin = noPin
  NoVault = noVault
  MaxAttempts = 2
  LockoutTicks = 2
  MaxFaults = 0
INVARIANT AtMostMaxAttempts
