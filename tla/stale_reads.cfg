CONSTANTS
  Absent = absent
  absent = absent
  NoBooking = NoBooking
  v1 = v1
  v2 = v2
  d1 = d1
  d2 = d2
  c1 = c1
  Customers = {c1}
  BookingIds = {b1}
  Vouchers = {1}
  Remarks = {"reason"}
  Handlers = {h1, h2}
  Actors = {"ADMIN", "STAFF"}
  CreateInputs <- StaleCreates
  UpdateInputs <- StaleUpdates
  StatusInputs = {"DRAFT", "CONFIRMED", "IN_PROGRESS", "COMPLETED", "CANCELLED"}
  CancelInputs <- WithReason
  VehicleStatusInputs = {"MAINTENANCE"}
  DriverStatusInputs = {}
  DriverRates = {}
  SettingsInputs <- OneSetting
  Retirable = {d1, c1}
  MaxCommits = 3
  Vehicles = {v1, v2}
  Drivers = {d1, d2}
SPECIFICATION Spec
SYMMETRY Symmetric
PROPERTIES StayFitsTrip AuditChains StatusMovesAsDocumented AssignmentsAssignable
