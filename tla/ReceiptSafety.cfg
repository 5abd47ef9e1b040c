SPECIFICATION Spec
CONSTANTS
  i1 = i1
  i2 = i2
  s1 = s1
  s2 = s2
  Issuers = {i1, i2}
  Shipments = {s1, s2}
  LoggedShipments = {}
  Served = {"issue"}
  SunatEnv = "beta"
  NoIssuer = NoIssuer
  NoShipment = NoShipment
SYMMETRY Symmetry
INVARIANTS
  TypeOK
  NumberIsNext
  Gapless
  AcceptedIsRegistered
PROPERTIES
  ImplementsLedger
