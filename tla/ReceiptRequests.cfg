SPECIFICATION FairSpec
CONSTANTS
  i1 = i1
  i2 = i2
  s1 = s1
  Issuers = {i1, i2}
  Shipments = {s1}
  LoggedShipments = {s1}
  Served = {"issue", "pdf", "xml"}
  SunatEnv = "beta"
  NoIssuer = NoIssuer
  NoShipment = NoShipment
INVARIANTS
  TimelineIsTrue
  LinkedLogHasReceipt
PROPERTIES
  RequestsFinish
