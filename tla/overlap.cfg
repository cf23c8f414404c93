CONSTANTS
  Absent = absent
  absent = absent
  NoBooking = NoBooking
  v1 = v1
  v2 = v2
  d1 = d1
  d2 = d2
  c1 = c1
  Customers = {c1}
  BookingIds = {b1, b2}
  Vouchers = {1, 2}
  Remarks = {}
  Handlers = {h1, h2}
  Actors = {"ADMIN"}
  CreateInputs <- OverlapCreates
  UpdateInputs <- OverlapUpdates
  StatusInputs = {"CONFIRMED"}
  CancelInputs <- NoReason
  VehicleStatusInputs = {}
  DriverStatusInputs = {}
  DriverRates = {2}
  SettingsInputs <- OneSetting
  Retirable = {}
  MaxCommits = 4
  Vehicles = {v1, v2}
  Drivers = {d1, d2}
SPECIFICATION Spec
SYMMETRY Symmetric
INVARIANTS TypeOK BookingInv TripsDisjoint AuditTellsStatus
PROPERTIES ImplementsCalendar
