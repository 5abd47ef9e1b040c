SPECIFICATION Spec
CONSTANTS
  Desks = {k1, k2}
  Dnis = {d1, d2}
  Letters = {L, M}
  MaxShipments = 3
  NoDesk = NoDesk
  Tellers = {t1, t2}
  Parcels <- DeskParcels
  ChatData <- Conversations
  NoPrice = NoPrice
  Workers = {w1, w2}
  Shipments = {s1, s2}
  NoShipment = NoShipment
  Links = {"pago_id"}
  Keys = {y1}
  NoKey = NoKey
  Phases = {"registro", "carga"}
  StartTimes = {1}
  EndTimes = {0, 2, 3}
  MaxLogs = 2
  Loaders = {l1, l2}
  Orders = {o1}
  Packages = {p1, p2}
  OrderTimes = {0, 1}
  NotYet = 99
  MaxPackages = 3
  MaxRows = 3
CONSTRAINT WithinScope
SYMMETRY Symmetry
INVARIANTS RefusedOnlyWhenOvertaken EstimateIsQuoted DurationsAreTrue TimelineHasItsLog OrderIsTimed
PROPERTIES ToldIsCharged MeasuredOnce
CHECK_DEADLOCK FALSE
