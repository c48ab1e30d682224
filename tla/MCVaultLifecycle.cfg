SPECIFICATION Spec
CONSTANTS
  Ops = {o1, o2}
  Hardware = {h1}
  Users = {u1, u2}
  Tokens = {t1}
  Pins = {p1}
  Reported = {"LOCKED", "PROVISIONING"}
  MaxVaults = 2
  None = none
SYMMETRY Symmetry
VIEW View
INVARIANTS
  TypeOK
  OwnerRegistered
  UsedTokenGoes
PROPERTIES
  DeletedStaysDeleted
  OwnerChangesAfterOpening
