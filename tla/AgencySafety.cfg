CONSTANTS
  Workers = {i1, i2, i3}
  Agencies = {a1, a2}
  Destinations = {d1, d2}
  Users = {technical, plain, u1, u2}
  technical = technical
  plain = plain
  DefaultAdmin = plain
  InitialRoles <- StartRoles
  AskedRoles = {"SECRETARIA", "ADMIN_GENERAL"}
  RoleTargets = {plain}
  NoAgency = NoAgency
  Nowhere = Nowhere
  Nobody = Nobody

SPECIFICATION MCSpec
CONSTRAINT WithinScope
SYMMETRY Symmetry

INVARIANTS
  OneAdministrator
  OneOpenAgency

PROPERTY StaffKeepTheirAgency

CHECK_DEADLOCK FALSE
