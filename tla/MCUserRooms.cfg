SPECIFICATION Spec
CONSTANTS
  u1 = u1
  u2 = u2
  d1 = d1
  d2 = d2
  v1 = v1
  k1 = k1
  k2 = k2
  Users = {u1, u2}
  Devices = {d1, d2}
  Vaults = {v1}
  Casters = {k1, k2}
  Nobody = Nobody
SYMMETRY Symmetry
INVARIANTS TypeOK RoomsServed DeliveryBounded
CHECK_DEADLOCK FALSE
