SPECIFICATION BioSpec
CONSTANTS
  Reqs = {r1, r2}
  Users = {u1, u2}
  Enrollers = {u1}
  Roles = {"ADMIN", "VIEWER"}
  MaxVaults = 2
  None = none
SYMMETRY Symmetry
INVARIANTS
  BioTypeOK
  GrantedByOwner
  ServedHadAccess
  FailsOnConflict
  ListAgreesWithCheck
  EnrolmentsBounded
  FaceFailsOnConflict
