CONSTANTS
  None = none
  none = none
  Vehicles = {v1, v2}
  Drivers = {d1}
  Customers = {c1, c2}
  Plates = {p1, p2}
  Rates = {0, 250}
  Phones = {n1}
  Zones <- TwoZones
  VehicleStatusInputs = {"AVAILABLE", "MAINTENANCE"}
  DriverStatusInputs = {"AVAILABLE", "ON_LEAVE"}
  SettingsInputs <- TwoInputs
  SeededSettings <- OldSeed
  Handlers = {h1, h2}
  Failures = TRUE
  MaxRequests = 5
SPECIFICATION Spec
SYMMETRY Symmetric
INVARIANTS TypeOK DeletedStaysInactive AuditTellsRows AuditTellsSettings
PROPERTIES ImplementsBookingEnvironment
