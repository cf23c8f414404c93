CONSTANTS
  None = none
  none = none
  Any = any
  Limits <- SmallLimits
  any = any
  b1 = b1
  b2 = b2
  b3 = b3
  v1 = v1
  v2 = v2
  d1 = d1
  d2 = d2
  BookingIds = {b1, b2, b3}
  Vehicles = {v1, v2}
  Drivers = {d1, d2}
  Slots = {1, 2}
  Starts <- AllScreens
  Asks <- AnyAsks
  Controls <- SmallControls
  NewRows <- NewTrips
  Settings <- OneHour
  Seats <- SmallAndLarge
  PageSize = 1
  Period <- FewDays
  Today = 1
  Now = 1
  Role = "ADMIN"
  MaxRequests <- FewRequests
  MaxCommits = 1
SPECIFICATION Spec
INVARIANTS TypeOK TimelineTellsConflicts AlternativesBookable ReportsAgree UntornAnswersAddUp ScreenFollowsControls
PROPERTY KeepsToCalendar
CHECK_DEADLOCK FALSE
