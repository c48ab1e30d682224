SPECIFICATION Spec
CONSTANTS
  Ops = {o1, o2}
  Hardware = {h1, h2}
  Users = {u1}
  Tokens = {t1}
  Pins = {}
  Reported = {}
  MaxVaults = 2
  None = none
INVARIANT TokenUsedOnce
