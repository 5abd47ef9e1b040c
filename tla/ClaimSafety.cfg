SPECIFICATION Spec
CONSTANTS
  Workers = {w1, w2}
  Claims = {c1}
  Shipments = {s1}
  Agencies = {"lima"}
  ActiveAgencies = {"lima"}
  ShipmentAgency <- MCShipmentAgency
  Users = {"root", "boss", "clerk"}
  RolesOf <- MCRolesOf
  Workplace <- MCWorkplace
  NoAgency = NoAgency
  NoClaim = NoClaim
  Nobody = Nobody
SYMMETRY Symmetry
VIEW View
INVARIANTS EventsAgree SolutionIsSound RecordsAreGuarded
PROPERTY ClosedIsFrozen
