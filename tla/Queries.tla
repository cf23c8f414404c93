------------------------------- MODULE Queries -------------------------------
(***************************************************************************)
(* What the reading services of the API compute from the tables: the lists *)
(* (listBookings, listVehicles, ...), the availability check, the          *)
(* dashboard and the reports.  rows is a set of booking rows that are not  *)
(* deleted, each with its id; vehicles and drivers are functions to rows   *)
(* with status and deleted.  A filter is a record of columns, where Any    *)
(* stands for a parameter that was not given.                              *)
(***************************************************************************)
EXTENDS Integers, Sequences, FiniteSets, FiniteSetsExt, Availability, StatusTransitions

CONSTANTS
  Any,
  Limits                \* how many rows the statements take at most

ASSUME LimitsAssumption ==
  Limits \in [ dispatch : Nat \ {0}, alerts : Nat \ {0}, bars : Nat \ {0},
               timelineVehicles : Nat \ {0}, alternatives : Nat \ {0}, reportRows : Nat \ {0},
               reportVehicles : Nat \ {0}, preview : Nat \ {0} ]

Ids(rows) == { row.id : row \in rows }

\* orderBy and take: what comes first, ties as PostgreSQL likes.  rank gives the
\* column of the order; plates and names are left out, which is any order.
First(rows, rank, limit) ==
  { taken \in SUBSET rows :
      /\ Cardinality(taken) = Min({limit, Cardinality(rows)})
      /\ \A x \in taken, y \in rows \ taken : rank[x] <= rank[y] }

ByStart(rows) == [ row \in rows |-> row.startAt ]
Unordered(rows) == [ row \in rows |-> 0 ]

-----------------------------------------------------------------------------
(***************************************************************************)
(* Query parameters                                                        *)
(***************************************************************************)

\* toQueryString of the web client leaves out undefined and "" and prints the
\* rest: a check box that is off is sent as "false".
QueryText(checked) == IF checked THEN "true" ELSE "false"

\* z.coerce.boolean is Boolean(text), false for the empty string only.
CoerceBoolean(text) == text # ""

\* The where clause of the list services: a parameter that was given must match.
Matching(filter, rows) ==
  { row \in rows : \A column \in DOMAIN filter : filter[column] \in {Any, row[column]} }

-----------------------------------------------------------------------------
(***************************************************************************)
(* Lists: one statement takes the rows of a page, another counts them all. *)
(***************************************************************************)

\* orderBy a column that nothing here tells apart.
Listings(rows) ==
  { s \in [ 1..Cardinality(rows) -> rows ] : \A i, j \in DOMAIN s : i # j => s[i] # s[j] }

\* orderBy one column, startAt descending: PostgreSQL orders ties as it likes.
Orders(rows) ==
  { s \in Listings(rows) : \A i, j \in DOMAIN s : i < j => s[i].startAt >= s[j].startAt }

\* Mutant: pages are numbered from zero.
PageFromZero(s, page, size) ==
  { s[i] : i \in (page * size + 1)..((page + 1) * size) \cap DOMAIN s }

\* skip (page - 1) * pageSize, take pageSize
PageOf(s, page, size) ==
  { s[i] : i \in ((page - 1) * size + 1)..(page * size) \cap DOMAIN s }

PageCount(total, size) == (total + size - 1) \div size

-----------------------------------------------------------------------------
(***************************************************************************)
(* The availability check.  ask names the booking being edited and the     *)
(* vehicle and the driver, or None.  At most ten rows of each kind are     *)
(* returned: of the conflicts only their kinds matter, and of the          *)
(* alternatives the smallest vehicles come first.                          *)
(***************************************************************************)
InTheWay(ask, settings, rows) ==
  OverlappingRows(ResolveWindow(ask.tripType, ask.startAt, ask.endAt, settings),
                  { row \in rows : row.id # ask.editing })

\* Mutant: nobody asks for the driver's conflicts.
ConflictKindsOfVehicle(ask, settings, rows) ==
  { kind \in {"vehicle"} : \E row \in InTheWay(ask, settings, rows) : row[kind] = ask[kind] }

\* The kinds of conflict, of findVehicleConflicts and findDriverConflicts.
ConflictKinds(ask, settings, rows) ==
  { kind \in {"vehicle", "driver"} :
      \E row \in InTheWay(ask, settings, rows) : row[kind] = ask[kind] }

FreeVehicles(ask, seats, settings, rows, vehicles) ==
  { v \in DOMAIN vehicles :
      /\ ~ vehicles[v].deleted /\ vehicles[v].status = "AVAILABLE" /\ vehicles[v].seats >= seats
      /\ \A row \in InTheWay(ask, settings, rows) : row.vehicle # v }

FreeDrivers(ask, settings, rows, drivers) ==
  { d \in DOMAIN drivers :
      /\ ~ drivers[d].deleted /\ drivers[d].status = "AVAILABLE"
      /\ \A row \in InTheWay(ask, settings, rows) : row.driver # d }

BySeats(free, vehicles) == [ v \in free |-> vehicles[v].seats ]

\* Mutant: the bookings in the way are those of the trip, without its buffers.
AlternativeVehiclesUnbuffered(ask, seats, settings, rows, vehicles) ==
  LET free == FreeVehicles(ask, seats, [ pre |-> 0, post |-> 0 ], rows, vehicles) IN
  First(free, BySeats(free, vehicles), Limits.alternatives)

\* The lists of alternatives the check may answer with.
AlternativeVehicles(ask, seats, settings, rows, vehicles) ==
  LET free == FreeVehicles(ask, seats, settings, rows, vehicles) IN
  First(free, BySeats(free, vehicles), Limits.alternatives)

AlternativeDrivers(ask, settings, rows, drivers) ==
  LET free == FreeDrivers(ask, settings, rows, drivers) IN
  First(free, Unordered(free), Limits.alternatives)

-----------------------------------------------------------------------------
(***************************************************************************)
(* The dashboard.  range is [from, to), today its day, now the clock.      *)
(***************************************************************************)

\* overlapsWindow, on the availability columns.
OverlapsWindow(range, rows) ==
  { row \in rows : row.from < range.to /\ row.to > range.from }

Active(rows) == { row \in rows : row.status # "CANCELLED" }

TodaysBookings(today, rows) == OverlapsWindow([ from |-> today, to |-> today + 1 ], Active(rows))
TodaysDispatch(today, rows) ==
  First(TodaysBookings(today, rows), ByStart(TodaysBookings(today, rows)), Limits.dispatch)
UpcomingBookings(range, now, rows) ==
  { row \in OverlapsWindow(range, Active(rows)) : row.startAt >= now }
OvernightBookings(range, rows) ==
  { row \in OverlapsWindow(range, Active(rows)) : row.tripType = "OVERNIGHT" }
OvernightAlerts(range, now, rows) ==
  LET ahead == OvernightBookings(range, rows) \cap UpcomingBookings(range, now, rows) IN
  First(ahead, ByStart(ahead), Limits.alerts)
BookingsRequiringAttention(today, rows) ==
  { row \in rows : row.status \in {"DRAFT", "CONFIRMED"} /\ row.startAt \in today..(today + 1) }

InService(fleet) == { x \in DOMAIN fleet : ~ fleet[x].deleted }
InServiceWith(status, fleet) == { x \in InService(fleet) : status \in {Any, fleet[x].status} }

BookingCards(range, today, now, rows) ==
  [ today |-> Cardinality(TodaysBookings(today, rows)),
    confirmed |-> Cardinality({ row \in TodaysBookings(today, rows) : row.status = "CONFIRMED" }),
    upcoming |-> Cardinality(UpcomingBookings(range, now, rows)),
    overnight |-> Cardinality(OvernightBookings(range, rows)),
    attention |-> Cardinality(BookingsRequiringAttention(today, rows)) ]

\* vehicleStatusOverview: groupBy gives the statuses some vehicle has.
StatusOverview(vehicles) ==
  [ status \in { vehicles[v].status : v \in InService(vehicles) } |->
      Cardinality({ v \in InService(vehicles) : vehicles[v].status = status }) ]

\* Mutant: the bars are chosen by the hours of the trip.
BarsOfTrips(filter, range, rows) ==
  LET meeting == { row \in Matching(filter, rows) : row.startAt < range.to /\ row.endAt > range.from } IN
  First(meeting, Unordered(meeting), Limits.bars)

\* getVehicleTimeline takes the bookings in one statement, the vehicles in
\* another, and puts each booking into its vehicle's row, if that has one.
Bars(filter, range, rows) ==
  LET meeting == OverlapsWindow(range, Matching(filter, rows)) IN
  First(meeting, Unordered(meeting), Limits.bars)

TimelineVehicles(status, vehicles) ==
  LET matching == InServiceWith(status, vehicles) IN
  First(matching, Unordered(matching), Limits.timelineVehicles)

TimelineRow(v, bars) == { row \in bars : row.vehicle = v }

-----------------------------------------------------------------------------
(***************************************************************************)
(* The reports, over the days of range by the start of the trip.           *)
(***************************************************************************)
ReportTypes ==
  {"daily-bookings", "cancelled-bookings", "overnight-stays", "overnight-driver-costs",
   "vehicle-utilization", "vehicle-service-status"}
RestrictedToAdmin == {"overnight-driver-costs"}

Permitted(type, role) == type \in RestrictedToAdmin => role = "ADMIN"

\* bookingWhere: some types replace the status or the trip type of the filter.
ReportFilter(type, filter) ==
  [ filter EXCEPT
      !.status = IF type = "cancelled-bookings" THEN "CANCELLED" ELSE @,
      !.tripType = IF type \in {"overnight-stays", "overnight-driver-costs"} THEN "OVERNIGHT"
                   ELSE @ ]

StartingIn(range, rows) == { row \in rows : row.startAt \in range.from..(range.to - 1) }

\* The lists of rows a report may have.
BookingRows(type, filter, range, rows) ==
  LET matching == Matching(ReportFilter(type, filter), StartingIn(range, rows)) IN
  First(matching, ByStart(matching), Limits.reportRows)

\* The rows of a report that its preview shows.
Preview(report) == First(report, ByStart(report), Limits.preview)

UtilizationRows(listed, counted) ==
  [ v \in listed |->
      [ bookingCount |-> Cardinality(TimelineRow(v, counted)),
        bookedHours |-> MapThenSumSet(LAMBDA row : row.endAt - row.startAt,
                                      TimelineRow(v, counted)) ] ]

Utilizations(matching, vehicles) ==
  UNION { { UtilizationRows(listed, counted) :
              counted \in First(matching, Unordered(matching), Limits.reportRows) } :
          listed \in First(InService(vehicles), Unordered(InService(vehicles)), Limits.reportVehicles) }

\* Mutant: cancelled bookings count.
UtilizationOfAll(filter, range, rows, vehicles) ==
  Utilizations(Matching([ filter EXCEPT !.status = Any ], StartingIn(range, rows)), vehicles)

\* vehicleUtilizationRows: hours count in full, even those after the range.
Utilization(filter, range, rows, vehicles) ==
  Utilizations(Active(Matching([ filter EXCEPT !.status = Any ], StartingIn(range, rows))), vehicles)

ServiceStatusRows(vehicles) ==
  LET out == { v \in InService(vehicles) : vehicles[v].status \in {"MAINTENANCE", "OUT_OF_SERVICE"} } IN
  First(out, Unordered(out), Limits.reportRows)

\* totalsFor: the totalDriverCost of the overnight-driver-costs report.
TotalDriverCost(rows) == MapThenSumSet(LAMBDA row : row.cost, rows)

=============================================================================
