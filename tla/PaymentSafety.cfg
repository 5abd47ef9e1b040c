SPECIFICATION MCSpec
CONSTANTS
  c1 = c1
  c2 = c2
  s1 = s1
  Cashiers = {c1, c2}
  Shipments = {s1}
  NoCashier = NoCashier
  NoShipment = NoShipment
  MaxRows = 2
INVARIANTS
  TypeOK
  ChargesNumbered
  SuccessesWereAccepted
  AnnouncedWasCharged
  OneOpenLogApart
PROPERTIES
  ApprovedIsAnnounced
