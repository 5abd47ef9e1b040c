SPECIFICATION DisjointSpec
CONSTANTS
  w1 = w1
  w2 = w2
  s1 = s1
  s2 = s2
  b1 = b1
  p1 = p1
  p2 = p2
  Workers = {w1, w2}
  Shipments = {s1, s2}
  Bases = {b1}
  Receivers = {p1, p2}
  NoBase = NoBase
  Nobody = Nobody
  NoShipment = NoShipment
SYMMETRY Symmetry
INVARIANTS
  RegisteredHasBase
PROPERTIES
  ImplementsMachine
  DeliveredOnce
