------------------------------ MODULE Bookings ------------------------------
(***************************************************************************)
(* The booking service of the API over its PostgreSQL database.  Several   *)
(* request handlers run at once; each goes through the awaits of           *)
(* booking.service.ts one step at a time:                                  *)
(*                                                                         *)
(*   create   idle -> writing -> idle                                      *)
(*   update   idle -> updating -> writing -> idle                          *)
(*   status   idle -> changing -> idle                                     *)
(*   cancel   idle -> cancelling -> idle                                   *)
(*                                                                         *)
(* In "updating", "changing" and "cancelling" the handler holds the row    *)
(* that getBooking returned BEFORE the transaction starts.  "writing" is   *)
(* the inside of a Serializable transaction: its reads came from one       *)
(* snapshot, its writes become visible when it commits.  The status and    *)
(* cancel transactions run at the default READ COMMITTED level and take a  *)
(* single step.  csn numbers the commits to the Booking table and xmin is  *)
(* the commit that last wrote a row, which is how PostgreSQL finds that a  *)
(* row changed under a Serializable transaction.                           *)
(***************************************************************************)
EXTENDS Integers, Sequences, FiniteSets, StatusTransitions, Availability, OvernightStays

CONSTANTS
  BookingIds, Vouchers, Customers, Vehicles, Drivers, Remarks,
  Handlers,             \* requests the server executes at the same time
  NoBooking,            \* an id with no row
  Actors,               \* roles of the callers
  CreateInputs,         \* bodies of POST /bookings
  UpdateInputs,         \* bodies of PATCH /bookings/:id
  StatusInputs,         \* bodies of PATCH /bookings/:id/status
  CancelInputs,         \* reasons of POST /bookings/:id/cancel
  VehicleStatusInputs, DriverStatusInputs, DriverRates, SettingsInputs,
                        \* what fleet and settings requests may write
  Retirable,            \* vehicles, drivers and customers that may be soft-deleted
  MaxCommits            \* bound: commits to the Booking table

VARIABLES
  bookings,             \* Booking table
  overnightStays,       \* OvernightStay table, grouped by booking
  auditLog,             \* booking entries of AuditLog, grouped by booking
  vehicles, drivers, activeCustomers, settings,
  handlers,
  csn

tables == << bookings, overnightStays, auditLog, csn >>
fleet == << vehicles, drivers, activeCustomers, settings >>
vars == << tables, fleet, handlers >>

-----------------------------------------------------------------------------

VehicleStatuses ==
  {"AVAILABLE", "BOOKED", "MAINTENANCE", "OUT_OF_SERVICE", "INACTIVE"}
DriverStatuses == {"AVAILABLE", "ASSIGNED", "ON_LEAVE", "INACTIVE"}

Settings == [ pre : Nat, post : Nat, rate : Nat ]
VehicleRows == [ status : VehicleStatuses, deleted : BOOLEAN ]
DriverRows == [ status : DriverStatuses, deleted : BOOLEAN, rate : Nat ]

Rows == [ voucher : Vouchers, customer : Customers, vehicle : Vehicles, driver : Drivers,
          startAt : Int, endAt : Int, from : Int, to : Int,
          tripType : TripTypes, status : BookingStatuses, cancelledAt : BOOLEAN,
          notes : SUBSET Remarks, xmin : Nat ]

CreateBodies ==
  [ voucher : Vouchers, customer : Customers, vehicle : Vehicles, driver : Drivers,
    startAt : Int, endAt : Int, tripType : TripTypes, status : BookingStatuses,
    stay : StayRequests \cup {Absent}, notes : SUBSET Remarks ]

UpdateBodies ==
  [ voucher : Vouchers \cup {Absent}, customer : Customers \cup {Absent},
    vehicle : Vehicles \cup {Absent}, driver : Drivers \cup {Absent},
    startAt : Int \cup {Absent}, endAt : Int \cup {Absent},
    tripType : TripTypes \cup {Absent}, stay : StayRequests \cup {Absent},
    notes : (SUBSET Remarks) \cup {Absent} ]

AuditEntries ==
  [ action : {"BOOKING_CREATED", "BOOKING_UPDATED", "BOOKING_STATUS_CHANGED",
              "BOOKING_CANCELLED", "OVERNIGHT_COST_OVERRIDDEN"},
    role : Roles, old : BookingStatuses \cup {Absent}, new : BookingStatuses \cup {Absent} ]

Answers == {"200", "400", "403", "404", "409", "500"}

IdleHandlers == [ stage : {"idle"}, answer : Answers ]
UpdatingHandlers ==
  [ stage : {"updating"}, role : Roles, booking : BookingIds, existing : Rows,
    input : UpdateBodies ]
ChangingHandlers ==
  [ stage : {"changing"}, role : Roles, booking : BookingIds, existing : Rows,
    to : BookingStatuses ]
CancellingHandlers ==
  [ stage : {"cancelling"}, role : Roles, booking : BookingIds, existing : Rows,
    reason : Remarks \cup {Absent} ]
Snapshots ==
  [ csn : Nat, vehicles : [ Vehicles -> VehicleRows ], drivers : [ Drivers -> DriverRows ] ]
WritingHandlers ==
  [ stage : {"writing"}, role : Roles, booking : BookingIds, row : Rows,
    stays : SUBSET Stays, stayAnswer : Answers, override : BOOLEAN,
    existing : Rows \cup {NoBooking}, snapshot : Snapshots ]

HandlerStates ==
  IdleHandlers \cup UpdatingHandlers \cup ChangingHandlers \cup CancellingHandlers
    \cup WritingHandlers

ASSUME BookingsAssumption ==
  /\ NoBooking \notin Rows
  /\ Absent \notin BookingStatuses
  /\ Actors \subseteq Roles
  /\ CreateInputs \subseteq CreateBodies
  /\ UpdateInputs \subseteq UpdateBodies
  /\ StatusInputs \subseteq BookingStatuses
  /\ CancelInputs \subseteq Remarks \cup {Absent}
  /\ VehicleStatusInputs \subseteq VehicleStatuses
  /\ DriverStatusInputs \subseteq DriverStatuses
  /\ DriverRates \subseteq Nat
  /\ SettingsInputs \subseteq Settings /\ SettingsInputs # {}
  /\ MaxCommits \in Nat

-----------------------------------------------------------------------------

Existing == { b \in BookingIds : bookings[b] # NoBooking }
AllRows == { bookings[b] : b \in Existing }
RowsBut(b) == { bookings[c] : c \in Existing \ {b} }

Idle(answer) == [ stage |-> "idle", answer |-> answer ]
Answer(h, answer) == handlers' = [ handlers EXCEPT ![h] = Idle(answer) ]
Busy == { h \in Handlers : handlers[h].stage # "idle" }

\* Mutant: a vehicle under maintenance passes.
BookableUnderMaintenance(customer, vehicle, driver) ==
  /\ customer \in activeCustomers
  /\ vehicles[vehicle].status \notin {"INACTIVE", "OUT_OF_SERVICE"}
  /\ drivers[driver].status # "INACTIVE"

\* assertBookableResources
Bookable(customer, vehicle, driver) ==
  /\ customer \in activeCustomers
  /\ ~ vehicles[vehicle].deleted
  /\ vehicles[vehicle].status \notin {"INACTIVE", "MAINTENANCE", "OUT_OF_SERVICE"}
  /\ ~ drivers[driver].deleted
  /\ drivers[driver].status # "INACTIVE"

(***************************************************************************)
(* The Booking table's own guards: the CHECK constraints, the unique       *)
(* voucher and the two exclusion constraints, all against the committed    *)
(* rows, not against any snapshot.                                         *)
(***************************************************************************)
ChecksHold(row) ==
  /\ row.endAt > row.startAt
  /\ row.to > row.from
  /\ row.status = "CANCELLED" => row.cancelledAt

VoucherFree(b, row) == \A other \in RowsBut(b) : other.voucher # row.voucher

\* Mutant: the migration creates the vehicle constraint only.
VehicleExclusionHolds(b, row) ==
  Blocking(row) => \A other \in OverlappingRows(row, RowsBut(b)) : other.vehicle # row.vehicle

ExclusionHolds(b, row) ==
  Blocking(row) => Conflicts(row.vehicle, row.driver, row, RowsBut(b)) = {}

\* Mutant: the audit entry is left to a later transaction, which never runs.
CommitUnaudited(b, row, stays, entries) ==
  /\ csn' = csn + 1
  /\ bookings' = [ bookings EXCEPT ![b] = [ row EXCEPT !.xmin = csn + 1 ] ]
  /\ overnightStays' = [ overnightStays EXCEPT ![b] = stays ]
  /\ UNCHANGED auditLog

(***************************************************************************)
(* One committed transaction: the row, its overnight stays and its audit   *)
(* entries become visible together.                                        *)
(***************************************************************************)
Commit(b, row, stays, entries) ==
  /\ csn' = csn + 1
  /\ bookings' = [ bookings EXCEPT ![b] = [ row EXCEPT !.xmin = csn + 1 ] ]
  /\ overnightStays' = [ overnightStays EXCEPT ![b] = stays ]
  /\ auditLog' = [ auditLog EXCEPT ![b] = @ \o entries ]

Entry(action, role, old, new) == [ action |-> action, role |-> role, old |-> old, new |-> new ]

-----------------------------------------------------------------------------
(***************************************************************************)
(* createBooking                                                           *)
(***************************************************************************)

\* createBookingSchema and the assertDateRange that repeats its first rule.
CreateAccepted(in) ==
  /\ in.endAt > in.startAt
  /\ in.tripType = "CITY" => in.stay = Absent
  /\ in.tripType = "OVERNIGHT" => in.stay # Absent /\ in.stay.details
  /\ in.stay # Absent /\ in.stay.details => in.stay.nights > 0

\* A fresh uuid: no row has it and no open transaction is about to insert it.
FreshIds ==
  { b \in BookingIds \ Existing :
      \A h \in Handlers : handlers[h].stage = "writing" => handlers[h].booking # b }

MayStart(h) == handlers[h].stage = "idle" /\ csn + Cardinality(Busy) < MaxCommits

Snapshot == [ csn |-> csn, vehicles |-> vehicles, drivers |-> drivers ]

\* existing is the row the handler read before its transaction, none for create.
Writing(role, b, row, stay, tripType, driver, existing) ==
  LET answer == StayAnswer(tripType, stay, role) IN
  [ stage |-> "writing", role |-> role, booking |-> b, row |-> row,
    stays |-> IF answer = "200"
              THEN StaysAfterWrite(tripType, stay, drivers[driver].rate, settings) ELSE {},
    stayAnswer |-> answer,
    override |-> answer = "200" /\ stay # Absent /\ WantsOverride(stay),
    existing |-> existing, snapshot |-> Snapshot ]

\* The request fails validation, a resource check or the conflict check.
RefuseCreate(h) ==
  \E in \in CreateInputs :
    LET window == ResolveWindow(in.tripType, in.startAt, in.endAt, settings) IN
    /\ MayStart(h)
    /\ \/ /\ ~ CreateAccepted(in) \/ ~ Bookable(in.customer, in.vehicle, in.driver)
          /\ Answer(h, "400")
       \/ /\ CreateAccepted(in) /\ Bookable(in.customer, in.vehicle, in.driver)
          /\ Conflicts(in.vehicle, in.driver, window, AllRows) # {}
          /\ Answer(h, "409")
    /\ UNCHANGED << tables, fleet >>

\* The columns createBooking writes; cancelledAt is not among them.
CreatedRow(in, window) ==
  [ voucher |-> in.voucher, customer |-> in.customer, vehicle |-> in.vehicle,
    driver |-> in.driver, startAt |-> in.startAt, endAt |-> in.endAt,
    from |-> window.from, to |-> window.to, tripType |-> in.tripType,
    status |-> in.status, cancelledAt |-> FALSE, notes |-> in.notes, xmin |-> 0 ]

\* Every check of the transaction passed in its snapshot; the writes follow.
BeginCreate(h) ==
  \E role \in Actors, in \in CreateInputs, b \in FreshIds :
    LET window == ResolveWindow(in.tripType, in.startAt, in.endAt, settings) IN
    /\ MayStart(h)
    /\ CreateAccepted(in)
    /\ Bookable(in.customer, in.vehicle, in.driver)
    /\ Conflicts(in.vehicle, in.driver, window, AllRows) = {}
    /\ handlers' = [ handlers EXCEPT ![h] = 
         Writing(role, b, CreatedRow(in, window), in.stay, in.tripType, in.driver, NoBooking) ]
    /\ UNCHANGED << tables, fleet >>

-----------------------------------------------------------------------------
(***************************************************************************)
(* getBooking, alone and as the first step of the three other operations   *)
(***************************************************************************)

\* GET /bookings/:id
GetBooking(h) ==
  /\ handlers[h].stage = "idle"
  /\ \E b \in BookingIds : Answer(h, IF b \in Existing THEN "200" ELSE "404")
  /\ UNCHANGED << tables, fleet >>

\* The dates updateBooking works with: the request's, or those just read.
StartOf(in, row) == Given(in.startAt, row.startAt)
EndOf(in, row) == Given(in.endAt, row.endAt)

ReadForUpdate(h) ==
  \E role \in Actors, in \in UpdateInputs, b \in Existing :
    LET row == bookings[b] IN
    /\ MayStart(h)
    /\ \/ ~ EditableByRole(row.status, role) /\ Answer(h, "403")
       \/ /\ EditableByRole(row.status, role)
          /\ EndOf(in, row) <= StartOf(in, row)
          /\ Answer(h, "400")
       \/ /\ EditableByRole(row.status, role)
          /\ EndOf(in, row) > StartOf(in, row)
          /\ handlers' = [ handlers EXCEPT ![h] =
               [ stage |-> "updating", role |-> role, booking |-> b, existing |-> row,
                 input |-> in ] ]
    /\ UNCHANGED << tables, fleet >>

ReadForStatus(h) ==
  \E role \in Actors, to \in StatusInputs, b \in Existing :
    LET row == bookings[b] IN
    /\ MayStart(h)
    /\ \/ ~ TransitionAllowed(row.status, to, role) /\ Answer(h, "400")
       \/ /\ TransitionAllowed(row.status, to, role)
          /\ handlers' = [ handlers EXCEPT ![h] =
               [ stage |-> "changing", role |-> role, booking |-> b, existing |-> row,
                 to |-> to ] ]
    /\ UNCHANGED << tables, fleet >>

ReadForCancel(h) ==
  \E role \in Actors, reason \in CancelInputs, b \in Existing :
    LET row == bookings[b] IN
    /\ MayStart(h)
    /\ \/ ~ TransitionAllowed(row.status, "CANCELLED", role) /\ Answer(h, "400")
       \/ /\ TransitionAllowed(row.status, "CANCELLED", role)
          /\ handlers' = [ handlers EXCEPT ![h] =
               [ stage |-> "cancelling", role |-> role, booking |-> b, existing |-> row,
                 reason |-> reason ] ]
    /\ UNCHANGED << tables, fleet >>

-----------------------------------------------------------------------------
\* Mutant: a field the request leaves out is written as null.
UpdatedRowNulls(row, in, window, existing) ==
  [ row EXCEPT !.vehicle = in.vehicle, !.startAt = StartOf(in, existing),
               !.endAt = EndOf(in, existing), !.from = window.from, !.to = window.to ]

\* Mutant: the availability columns are not rewritten.
UpdatedRowOldWindow(row, in, window, existing) ==
  [ row EXCEPT !.vehicle = Given(in.vehicle, @), !.driver = Given(in.driver, @),
               !.startAt = StartOf(in, existing), !.endAt = EndOf(in, existing),
               !.tripType = Given(in.tripType, @) ]

(***************************************************************************)
(* updateBooking, inside its transaction.  Resources, trip type and dates  *)
(* the request leaves out come from existing, read before the snapshot;    *)
(* the columns it leaves out keep what the row has in the snapshot.        *)
(***************************************************************************)
UpdatedRow(row, in, window, existing) ==
  [ row EXCEPT !.voucher = Given(in.voucher, @), !.customer = Given(in.customer, @),
               !.vehicle = Given(in.vehicle, @), !.driver = Given(in.driver, @),
               !.startAt = StartOf(in, existing), !.endAt = EndOf(in, existing),
               !.from = window.from, !.to = window.to,
               !.tripType = Given(in.tripType, @), !.notes = Given(in.notes, @) ]

BeginUpdate(h) ==
  LET p == handlers[h]
      in == p.input
      customer == Given(in.customer, p.existing.customer)
      vehicle == Given(in.vehicle, p.existing.vehicle)
      driver == Given(in.driver, p.existing.driver)
      tripType == Given(in.tripType, p.existing.tripType)
      window == ResolveWindow(tripType, StartOf(in, p.existing), EndOf(in, p.existing), settings)
      conflicts == Conflicts(vehicle, driver, window, RowsBut(p.booking))
  IN
  /\ p.stage = "updating"
  /\ \/ ~ Bookable(customer, vehicle, driver) /\ Answer(h, "400")
     \/ Bookable(customer, vehicle, driver) /\ conflicts # {} /\ Answer(h, "409")
     \/ /\ Bookable(customer, vehicle, driver)
        /\ conflicts = {}
        /\ handlers' = [ handlers EXCEPT ![h] =
             Writing(p.role, p.booking,
                     UpdatedRow(bookings[p.booking], in, window, p.existing),
                     in.stay, tripType, driver, p.existing) ]
  /\ UNCHANGED << tables, fleet >>

-----------------------------------------------------------------------------
(***************************************************************************)
(* The writes and the commit of the create and update transactions.        *)
(***************************************************************************)

\* The row to update was committed by someone else after the snapshot.
RowChanged(p) == p.existing # NoBooking /\ bookings[p.booking].xmin > p.snapshot.csn

\* oldValues: what create leaves out and update takes from existing.
OldStatus(existing) == IF existing = NoBooking THEN Absent ELSE existing.status

WriteEntries(p) ==
  (IF p.override
   THEN << Entry("OVERNIGHT_COST_OVERRIDDEN", p.role, Absent, Absent) >> ELSE << >>)
  \o << Entry(IF p.existing = NoBooking THEN "BOOKING_CREATED" ELSE "BOOKING_UPDATED",
              p.role, OldStatus(p.existing), p.row.status) >>

CommitWrite(h) ==
  LET p == handlers[h] IN
  /\ p.stage = "writing"
  /\ ~ RowChanged(p)
  /\ ChecksHold(p.row) /\ VoucherFree(p.booking, p.row) /\ ExclusionHolds(p.booking, p.row)
  /\ p.stayAnswer = "200"
  /\ Commit(p.booking, p.row, p.stays, WriteEntries(p))
  /\ Answer(h, "200")
  /\ UNCHANGED fleet

(***************************************************************************)
(* The transaction rolls back: a CHECK constraint, the voucher, an overlap *)
(* that Prisma reports as P2004 or in another form, or writeOvernightStay. *)
(***************************************************************************)
RefuseWrite(h) ==
  LET p == handlers[h] IN
  /\ p.stage = "writing"
  /\ ~ RowChanged(p)
  /\ \/ ~ ChecksHold(p.row) /\ Answer(h, "500")
     \/ ~ VoucherFree(p.booking, p.row) /\ Answer(h, "409")
     \/ ~ ExclusionHolds(p.booking, p.row) /\ \E answer \in {"409", "500"} : Answer(h, answer)
     \/ /\ ChecksHold(p.row) /\ VoucherFree(p.booking, p.row)
        /\ ExclusionHolds(p.booking, p.row)
        /\ p.stayAnswer # "200"
        /\ Answer(h, p.stayAnswer)
  /\ UNCHANGED << tables, fleet >>

\* Mutant: the transaction is tried again on the snapshot that made it fail.
SerializationRetried(h) ==
  /\ handlers[h].stage = "writing"
  /\ RowChanged(handlers[h])
  /\ UNCHANGED vars

\* PostgreSQL refuses to update a row changed since the snapshot.
SerializationFailure(h) ==
  /\ handlers[h].stage = "writing"
  /\ RowChanged(handlers[h])
  /\ Answer(h, "500")
  /\ UNCHANGED << tables, fleet >>

(***************************************************************************)
(* Any request may end with nothing done: PostgreSQL cancels a Serializable*)
(* transaction that overlapped another or a deadlock victim, Prisma's      *)
(* transaction timeout passes, the connection or the server is lost.       *)
(***************************************************************************)
Abort(h) ==
  /\ handlers[h].stage # "idle"
  /\ Answer(h, "500")
  /\ UNCHANGED << tables, fleet >>

-----------------------------------------------------------------------------
(***************************************************************************)
(* updateBookingStatus and cancelBooking, inside their transactions: the   *)
(* row is written whatever it has become since existing was read.          *)
(***************************************************************************)
\* Mutant: the audit entry takes its old value from the row after the update.
WriteStatusOldLost(h, row, action) ==
  LET p == handlers[h] IN
  /\ ExclusionHolds(p.booking, row) /\ ChecksHold(row)
  /\ Commit(p.booking, row, overnightStays[p.booking],
            << Entry(action, p.role, row.status, row.status) >>)
  /\ Answer(h, "200")
  /\ UNCHANGED fleet

WriteStatus(h, row, action) ==
  LET p == handlers[h] IN
  \/ /\ ExclusionHolds(p.booking, row) /\ ChecksHold(row)
     /\ Commit(p.booking, row, overnightStays[p.booking],
               << Entry(action, p.role, p.existing.status, row.status) >>)
     /\ Answer(h, "200")
     /\ UNCHANGED fleet
  \/ /\ ~ (ExclusionHolds(p.booking, row) /\ ChecksHold(row))
     /\ Answer(h, "500")
     /\ UNCHANGED << tables, fleet >>

CancelledAtAfter(to, existing) == to = "CANCELLED" \/ existing.cancelledAt

UpdateStatus(h) ==
  LET p == handlers[h] IN
  /\ p.stage = "changing"
  /\ WriteStatus(h, [ bookings[p.booking] EXCEPT !.status = p.to,
                        !.cancelledAt = CancelledAtAfter(p.to, p.existing) ],
                 "BOOKING_STATUS_CHANGED")

NotesAfterCancel(existing, reason) ==
  existing.notes \cup (IF reason = Absent THEN {} ELSE {reason})

CancelBooking(h) ==
  LET p == handlers[h] IN
  /\ p.stage = "cancelling"
  /\ WriteStatus(h, [ bookings[p.booking] EXCEPT !.status = "CANCELLED", !.cancelledAt = TRUE,
                        !.notes = NotesAfterCancel(p.existing, p.reason) ],
                 "BOOKING_CANCELLED")

-----------------------------------------------------------------------------
(***************************************************************************)
(* The other services, as the booking service sees them: single statements *)
(* on the vehicle, driver, customer and settings rows.  A status write may *)
(* also reach a row that was soft-deleted since its handler read it.       *)
(***************************************************************************)
WriteVehicle(v) ==
  /\ \/ \E status \in VehicleStatusInputs :
          vehicles' = [ vehicles EXCEPT ![v].status = status ]
     \/ /\ v \in Retirable
        /\ vehicles' = [ vehicles EXCEPT ![v] = [ status |-> "INACTIVE", deleted |-> TRUE ] ]
  /\ UNCHANGED << tables, handlers, drivers, activeCustomers, settings >>

WriteDriver(d) ==
  /\ \/ \E status \in DriverStatusInputs \cup {drivers[d].status},
           rate \in DriverRates \cup {drivers[d].rate} :
          drivers' = [ drivers EXCEPT ![d].status = status, ![d].rate = rate ]
     \/ /\ d \in Retirable
        /\ drivers' = [ drivers EXCEPT ![d].status = "INACTIVE", ![d].deleted = TRUE ]
  /\ UNCHANGED << tables, handlers, vehicles, activeCustomers, settings >>

DeleteCustomer(c) ==
  /\ c \in activeCustomers \cap Retirable
  /\ activeCustomers' = activeCustomers \ {c}
  /\ UNCHANGED << tables, handlers, vehicles, drivers, settings >>

UpdateSettings ==
  /\ \E s \in SettingsInputs : settings' = s
  /\ UNCHANGED << tables, handlers, vehicles, drivers, activeCustomers >>

-----------------------------------------------------------------------------

Init ==
  /\ bookings = [ b \in BookingIds |-> NoBooking ]
  /\ overnightStays = [ b \in BookingIds |-> {} ]
  /\ auditLog = [ b \in BookingIds |-> << >> ]
  /\ vehicles = [ v \in Vehicles |-> [ status |-> "AVAILABLE", deleted |-> FALSE ] ]
  /\ drivers = [ d \in Drivers |-> [ status |-> "AVAILABLE", deleted |-> FALSE, rate |-> 0 ] ]
  /\ activeCustomers = Customers
  /\ settings \in SettingsInputs
  /\ handlers = [ h \in Handlers |-> Idle("200") ]
  /\ csn = 0

HandlerStep(h) ==
  \/ RefuseCreate(h) \/ BeginCreate(h) \/ GetBooking(h)
  \/ ReadForUpdate(h) \/ ReadForStatus(h) \/ ReadForCancel(h)
  \/ BeginUpdate(h)
  \/ CommitWrite(h) \/ RefuseWrite(h) \/ SerializationFailure(h) \/ Abort(h)
  \/ UpdateStatus(h) \/ CancelBooking(h)

FleetStep ==
  \/ \E v \in Vehicles : WriteVehicle(v)
  \/ \E d \in Drivers : WriteDriver(d)
  \/ \E c \in Customers : DeleteCustomer(c)
  \/ UpdateSettings

Next == FleetStep \/ \E h \in Handlers : HandlerStep(h)

Spec == Init /\ [][Next]_vars

(***************************************************************************)
(* An await of a handler is answered: PostgreSQL answers each statement or *)
(* Prisma's timeout does, and Node runs the continuation.  No fairness for *)
(* the arrival of requests, for the fleet or for Abort.                    *)
(***************************************************************************)
Progress(h) ==
  \/ BeginUpdate(h)
  \/ CommitWrite(h) \/ RefuseWrite(h) \/ SerializationFailure(h)
  \/ UpdateStatus(h) \/ CancelBooking(h)

FairSpec == Spec /\ \A h \in Handlers : WF_vars(Progress(h))

-----------------------------------------------------------------------------
(***************************************************************************)
(* Properties                                                              *)
(***************************************************************************)

\* Every table holds rows of its columns' types and every handler is at one
\* of its awaits with the variables it has there (schema.prisma).
TypeOK ==
  /\ bookings \in [ BookingIds -> Rows \cup {NoBooking} ]
  /\ overnightStays \in [ BookingIds -> SUBSET Stays ]
  /\ auditLog \in [ BookingIds -> Seq(AuditEntries) ]
  /\ vehicles \in [ Vehicles -> VehicleRows ]
  /\ drivers \in [ Drivers -> DriverRows ]
  /\ activeCustomers \in SUBSET Customers
  /\ settings \in Settings
  /\ handlers \in [ Handlers -> HandlerStates ]
  /\ csn \in Nat

ShareResource(row1, row2) == row1.vehicle = row2.vehicle \/ row1.driver = row2.driver

\* The trips of two bookings that are not cancelled never overlap when they
\* share the vehicle or the driver, whatever create, update and reopen requests
\* run at once: the exclusion constraints guard the availability windows, and
\* every window written covers its trip (docs/business-rules.md:55-56).
TripsDisjoint ==
  \A b, c \in Existing :
    /\ b # c /\ Blocking(bookings[b]) /\ Blocking(bookings[c])
    /\ ShareResource(bookings[b], bookings[c])
    => ~ HasHalfOpenOverlap(bookings[b].startAt, bookings[b].endAt,
                            bookings[c].startAt, bookings[c].endAt)

\* Why TripsDisjoint is inductive: the windows of the committed rows are
\* disjoint, and a window covers its trip in every row, committed or about to be
\* written by an open transaction.
Covered(row) == row.from <= row.startAt /\ row.endAt <= row.to

\* A row is never deleted, so the row a handler read is still there when it
\* writes (which keeps the types inductive).
HandlersOnExisting ==
  \A h \in Handlers :
    handlers[h].stage \in {"updating", "changing", "cancelling"} =>
      handlers[h].booking \in Existing

WindowsDisjoint ==
  \A b, c \in Existing :
    /\ b # c /\ Blocking(bookings[b]) /\ Blocking(bookings[c])
    /\ ShareResource(bookings[b], bookings[c])
    => ~ HasHalfOpenOverlap(bookings[b].from, bookings[b].to,
                            bookings[c].from, bookings[c].to)

BookingInv ==
  /\ HandlersOnExisting
  /\ WindowsDisjoint
  /\ \A b \in Existing : Covered(bookings[b])
  /\ \A h \in Handlers : handlers[h].stage = "writing" => Covered(handlers[h].row)

\* The last audit entry of a booking tells its present status: the entry is
\* written in the transaction that writes the row, so no crash, abort or
\* interleaving separates them (recordAuditLog with tx).
AuditTellsStatus ==
  \A b \in Existing :
    auditLog[b] # << >> /\ auditLog[b][Len(auditLog[b])].new = bookings[b].status

\* A cost override in the audit log was made by an Admin
\* (writeOvernightStay, docs/business-rules.md:84-85).
OverridesByAdmin ==
  \A b \in BookingIds : \A i \in DOMAIN auditLog[b] :
    auditLog[b][i].action = "OVERNIGHT_COST_OVERRIDDEN" => auditLog[b][i].role = "ADMIN"

CommittedBy(h) == /\ csn' # csn
                  /\ handlers[h].stage # "idle" /\ handlers'[h].stage = "idle"

\* Handler h commits a create or an update of booking b / a status change of it.
CommitsWrite(h, b) ==
  CommittedBy(h) /\ handlers[h].stage = "writing" /\ handlers[h].booking = b

CommitsStatus(h, b) ==
  /\ CommittedBy(h) /\ handlers[h].stage \in {"changing", "cancelling"}
  /\ handlers[h].booking = b

StaysFit(tripType, stays) ==
  /\ tripType = "CITY" => stays = {}
  /\ tripType = "OVERNIGHT" => Cardinality(stays) = 1

Fitting(b) == StaysFit(bookings[b].tripType, overnightStays[b])

\* An update leaves the trip type as it is, having read another one before its
\* transaction, and that one decided which overnight stay it wrote.
WroteForOtherTrip(h, b) ==
  /\ CommitsWrite(h, b) /\ b \in Existing
  /\ bookings'[b].tripType = bookings[b].tripType
  /\ handlers[h].existing.tripType # bookings[b].tripType

\* An overnight stay belongs to a trip that is not a city trip, an overnight
\* trip has exactly one (docs/business-rules.md:77-79), whatever requests run at
\* once: a commit leaves a booking without its fitting stay only when it had none
\* before and neither is touched, or by the one stale read updateBooking allows.
StayFitsTrip ==
  [][ \A b \in Existing' :
        \/ Fitting(b)'
        \/ /\ b \in Existing /\ ~ Fitting(b)
           /\ bookings'[b].tripType = bookings[b].tripType
           /\ overnightStays'[b] = overnightStays[b]
        \/ \E h \in Handlers : WroteForOtherTrip(h, b) ]_vars

\* The entries i and j of a log tell of a status, and none between them does.
NextStatus(log, i, j) ==
  /\ i < j /\ log[i].new # Absent /\ log[j].new # Absent
  /\ \A k \in (i + 1)..(j - 1) : log[k].new = Absent

\* Each entry's old status is the new status of the entry before it.
Chained(log) ==
  \A i, j \in DOMAIN log : NextStatus(log, i, j) => log[j].old = log[i].new

\* The audit log of a booking reads as one history of its status, and breaks off
\* only where a request writes a booking that another one moved to a different
\* status after it was read: oldValues is what the handler read, so every other
\* commit, of any of the four operations, continues the history.
AuditChains ==
  [][ \A b \in BookingIds :
        \/ Chained(auditLog[b]) => Chained(auditLog'[b])
        \/ /\ b \in Existing
           /\ \E h \in Handlers :
                /\ CommitsWrite(h, b) \/ CommitsStatus(h, b)
                /\ handlers[h].existing.status # bookings[b].status ]_vars

\* The moves docs/business-rules.md lists for Staff users.
StaffMoves ==
  { <<"DRAFT", "CONFIRMED">>, <<"CONFIRMED", "IN_PROGRESS">>, <<"IN_PROGRESS", "COMPLETED">>,
    <<"DRAFT", "CANCELLED">>, <<"CONFIRMED", "CANCELLED">>, <<"IN_PROGRESS", "CANCELLED">> }

\* A move the documents give to the role.
DocumentedMove(from, to, role) ==
  \/ <<from, to>> \in StaffMoves
  \/ role = "ADMIN" /\ ~ (from = "CANCELLED" /\ to \in {"IN_PROGRESS", "COMPLETED"})

\* Whatever requests run at once, only a status request moves a booking, by a move
\* the documents give its role from the status the booking has; or, when another
\* request moved the booking after this one read it, from the status it had then.
\* No update moves it (docs/business-rules.md:51-52,66-72).
StatusMovesAsDocumented ==
  [][ \A b \in Existing :
        bookings'[b].status # bookings[b].status =>
          \E h \in Handlers :
            LET read == handlers[h].existing.status
                to == bookings'[b].status
                role == handlers[h].role
            IN /\ CommitsStatus(h, b)
               /\ \/ DocumentedMove(bookings[b].status, to, role)
                  \/ /\ read # bookings[b].status
                     /\ read = to \/ DocumentedMove(read, to, role) ]_vars

\* Cancelled bookings do not move to IN_PROGRESS or COMPLETED
\* (docs/business-rules.md:51).
CancelledStaysOffRoad ==
  [][ \A b \in Existing :
        bookings[b].status = "CANCELLED" =>
          bookings'[b].status \notin {"IN_PROGRESS", "COMPLETED"} ]_vars

VehicleAssignable(vehicle) ==
  ~ vehicle.deleted /\ vehicle.status \notin {"INACTIVE", "MAINTENANCE", "OUT_OF_SERVICE"}

DriverAssignable(driver) == ~ driver.deleted /\ driver.status # "INACTIVE"

\* A create or update transaction leaves its booking on a vehicle or a driver that
\* its own snapshot shows as not assignable only when an update keeps the one
\* another request put there after the row was read: the check is then made of
\* the vehicle or driver read (docs/business-rules.md:48-49).
AssignmentsAssignable ==
  [][ \A h \in Handlers : \A b \in BookingIds :
        CommitsWrite(h, b) =>
          LET row == bookings'[b]
              p == handlers[h]
          IN /\ \/ VehicleAssignable(p.snapshot.vehicles[row.vehicle])
                \/ /\ b \in Existing /\ row.vehicle = bookings[b].vehicle
                   /\ p.existing.vehicle # row.vehicle
             /\ \/ DriverAssignable(p.snapshot.drivers[row.driver])
                \/ /\ b \in Existing /\ row.driver = bookings[b].driver
                   /\ p.existing.driver # row.driver ]_vars

\* Every request is answered, whatever the others commit meanwhile: no await
\* leaves a handler waiting for a row or a conflict to go away.
EveryRequestAnswered ==
  \A h \in Handlers : handlers[h].stage # "idle" ~> handlers[h].stage = "idle"

\* The calendar the service maintains, and that it is the promised one.
Hold(row) == [ vehicle |-> row.vehicle, driver |-> row.driver, from |-> row.from, to |-> row.to ]

Held ==
  [ b \in BookingIds |->
      IF b \in Existing /\ Blocking(bookings[b]) THEN Hold(bookings[b]) ELSE NoBooking ]

Calendar == INSTANCE Reservations WITH Nothing <- NoBooking, held <- Held

\* Seen as a calendar of holds, every step of the service places, moves or
\* gives back one booking's hold, or changes nothing.
ImplementsCalendar == Calendar!Spec

=============================================================================
