SPECIFICATION Spec
CONSTANTS
  Ops = {o1, o2}
  Hardware = {h1}
  Users = {u1}
  Tokens = {t1}
  Pins = {p1}
  Reported = {"LOCKED"}
  MaxVaults = 1
  None = none
PROPERTY StateUpdateKeepsPin
