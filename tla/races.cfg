CONSTANTS
  Absent = absent
  absent = absent
  NoBooking = NoBooking
  v1 = v1
  v2 = v2
  d1 = d1
  d2 = d2
  c1 = c1
  Customers = {c1}
  BookingIds = {b1}
  Vouchers = {1}
  Remarks = {"note"}
  Handlers = {h1, h2}
  Actors = {"ADMIN", "STAFF"}
  CreateInputs <- RaceCreates
  UpdateInputs <- RaceUpdates
  StatusInputs = {"CONFIRMED", "IN_PROGRESS", "COMPLETED"}
  CancelInputs <- NoReason
  VehicleStatusInputs = {}
  DriverStatusInputs = {}
  DriverRates = {2}
  SettingsInputs <- OneSetting
  Retirable = {c1}
  MaxCommits = 3
  Vehicles = {v1, v2}
  Drivers = {d1}
SPECIFICATION FairSpec
INVARIANTS OverridesByAdmin
PROPERTIES EveryRequestAnswered
