------------------------------- MODULE MCDesk -------------------------------
(***************************************************************************)
(* Small instances of Desk for TLC: three bookings, two vehicles and two   *)
(* drivers, on five units of time.  The closed screen starts from every    *)
(* calendar without overlaps over these trips and so checks the queries;   *)
(* the other screens start from a few calendars and check the requests.    *)
(***************************************************************************)
EXTENDS Desk

CONSTANTS b1, b2, b3, v1, v2, d1, d2, none, any

OneHour == [ pre |-> 1, post |-> 1 ]
SmallAndLarge == [ v \in {v1, v2} |-> IF v = v1 THEN 1 ELSE 2 ]
FewDays == [ from |-> 1, to |-> 4 ]

Trip(b, vehicle, driver, startAt, endAt, tripType, status) ==
  LET window == ResolveWindow(tripType, startAt, endAt, OneHour) IN
  [ id |-> b, vehicle |-> vehicle, driver |-> driver, startAt |-> startAt, endAt |-> endAt,
    from |-> window.from, to |-> window.to, tripType |-> tripType, status |-> status,
    cost |-> IF tripType = "OVERNIGHT" THEN 2 ELSE 0 ]

Trips(b) ==
  { Trip(b, v, d, hours[1], hours[2], tripType, status) :
      v \in {v1, v2}, d \in {d1, d2}, hours \in { <<0, 1>>, <<1, 2>>, <<1, 3>>, <<3, 5>> },
      tripType \in {"CITY", "OVERNIGHT"}, status \in {"CONFIRMED", "CANCELLED"} }

Clash(x, y) ==
  /\ Blocking(x) /\ Blocking(y) /\ x.from < y.to /\ y.from < x.to
  /\ x.vehicle = y.vehicle \/ x.driver = y.driver

Pair(x, y) == [ b \in {b1, b2, b3} |-> CASE b = b1 -> x [] b = b2 -> y [] b = b3 -> none ]

Calendars ==
  { Pair(t, none) : t \in Trips(b1) }
    \cup { Pair(p[1], p[2]) : p \in { q \in Trips(b1) \X Trips(b2) : ~ Clash(q[1], q[2]) } }

Morning == Trip(b1, v1, d1, 1, 2, "CITY", "CONFIRMED")
Night == Trip(b2, v2, d2, 1, 3, "OVERNIGHT", "CONFIRMED")

\* What others book meanwhile.
NewTrips == { Trip(b3, v2, d1, 2, 4, "CITY", "CONFIRMED") }

Ask(editing, vehicle, driver, startAt, endAt, tripType) ==
  [ open |-> TRUE, editing |-> editing, vehicle |-> vehicle, driver |-> driver,
    startAt |-> startAt, endAt |-> endAt, tripType |-> tripType ]

\* What the availability endpoint is asked, about a vehicle or a driver alone too.
AnyAsks ==
  { Ask(none, v2, d1, 2, 3, "OVERNIGHT"), Ask(none, v1, none, 1, 2, "CITY"),
    Ask(b1, v1, d1, 1, 2, "CITY"), Ask(b1, v2, d1, 1, 2, "CITY"),
    Ask(none, none, d2, 0, 1, "OVERNIGHT"), Ask(none, v1, d2, 3, 4, "CITY"),
    Ask(none, v2, d2, 1, 2, "OVERNIGHT") }

\* A booking made step by step, with d1 or with the alternative d2; and b1 opened
\* and saved again.
FormAsks ==
  { [ EmptyForm EXCEPT !.open = TRUE ], Ask(none, none, none, 2, 3, "OVERNIGHT"),
    Ask(none, none, d1, 2, 3, "OVERNIGHT"), Ask(none, v2, d1, 2, 3, "OVERNIGHT"),
    Ask(none, v2, d2, 2, 3, "OVERNIGHT"), Ask(b1, v1, d1, 1, 2, "CITY") }

FirstPage == [ status |-> any, page |-> 1 ]
AllTrips == [ status |-> any, vehicleStatus |-> any, overnightOnly |-> FALSE ]
Daily == [ type |-> "daily-bookings", status |-> any, overnightOnly |-> FALSE ]

SmallControls ==
  [ closed |-> {EmptyForm},
    list |-> [ status : {any, "CONFIRMED"}, page : 1..3 ],
    fleet |-> [ status : {any, "AVAILABLE"}, page : 1..3 ],
    form |-> FormAsks,
    dashboard |-> { AllTrips, [ AllTrips EXCEPT !.overnightOnly = TRUE ],
                    [ AllTrips EXCEPT !.vehicleStatus = "AVAILABLE" ] },
    reports |-> [ type : {"daily-bookings", "overnight-driver-costs"}, status : {any},
                  overnightOnly : BOOLEAN ] ]

\* Limits that the instance reaches and goes beyond, by one row.
SmallLimits ==
  [ dispatch |-> 1, alerts |-> 1, bars |-> 2, timelineVehicles |-> 1, alternatives |-> 1,
    reportRows |-> 2, reportVehicles |-> 1, preview |-> 1 ]

\* Limits that it does not reach.
WideLimits ==
  [ dispatch |-> 12, alerts |-> 8, bars |-> 500, timelineVehicles |-> 60, alternatives |-> 10,
    reportRows |-> 5000, reportVehicles |-> 500, preview |-> 100 ]

FewRequests == [ closed |-> 0, list |-> 2, fleet |-> 3, form |-> 2, dashboard |-> 2, reports |-> 3 ]

On(s, calendars, c) == { [ screen |-> s, bookings |-> b, controls |-> c ] : b \in calendars }

ReportScreens == On("reports", { Pair(Morning, Night) }, Daily)

AllScreens ==
  On("closed", Calendars, EmptyForm)
    \cup On("list", { Pair(Morning, Night) }, FirstPage)
    \cup On("fleet", { Pair(none, none) }, FirstPage)
    \cup On("form", { Pair(Morning, none) }, EmptyForm)
    \cup On("dashboard", { Pair(Morning, Night) }, AllTrips)
    \cup ReportScreens

=============================================================================
