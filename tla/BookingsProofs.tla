--------------------------- MODULE BookingsProofs ---------------------------
(***************************************************************************)
(* Theorems about Bookings for every set of ids, resources, handlers and   *)
(* inputs.                                                                 *)
(***************************************************************************)
EXTENDS Bookings, TLAPS

-----------------------------------------------------------------------------
(***************************************************************************)
(* What the helpers return.                                                *)
(***************************************************************************)

\* The availability window of a trip has integer ends and covers the trip,
\* whatever the buffers (resolveAvailabilityWindow).
LEMMA WindowCovers ==
  ASSUME NEW tripType, NEW startAt \in Int, NEW endAt \in Int, NEW s \in Settings
  PROVE  LET window == ResolveWindow(tripType, startAt, endAt, s) IN
         /\ window.from \in Int /\ window.to \in Int
         /\ window.from <= startAt /\ endAt <= window.to
  BY DEF ResolveWindow, Settings

\* A field taken from the request or from its fallback has the field's type.
LEMMA GivenType ==
  ASSUME NEW S, NEW field \in S \cup {Absent}, NEW fallback \in S
  PROVE  Given(field, fallback) \in S
  BY DEF Given

\* The checks of writeOvernightStay give one of the API's answers, and a
\* staff member never passes them with an override.
LEMMA StayAnswerFacts ==
  ASSUME NEW tripType, NEW stay \in StayRequests \cup {Absent}, NEW role
  PROVE  /\ StayAnswer(tripType, stay, role) \in Answers
         /\ StayAnswer(tripType, stay, role) = "200" /\ stay # Absent =>
              /\ stay.nights > 0
              /\ WantsOverride(stay) => role = "ADMIN"
<1>1. StayAnswer(tripType, stay, role) \in Answers
  BY DEF StayAnswer, Answers
<1>2. ASSUME StayAnswer(tripType, stay, role) = "200", stay # Absent
      PROVE  stay.nights > 0 /\ (WantsOverride(stay) => role = "ADMIN")
  <2>1. stay.nights \in Int
    BY <1>2 DEF StayRequests
  <2> QED
    BY <1>2, <2>1 DEF StayAnswer
<1> QED
  BY <1>1, <1>2

\* What writeOvernightStay stores once its checks passed is a set of stays with
\* a positive number of nights and amounts that are not negative.
LEMMA StaysType ==
  ASSUME NEW tripType, NEW stay \in StayRequests \cup {Absent}, NEW rate \in Nat,
         NEW s \in Settings, stay # Absent => stay.nights > 0
  PROVE  StaysAfterWrite(tripType, stay, rate, s) \subseteq Stays
<1>1. CASE tripType = "CITY" \/ stay = Absent
  BY <1>1 DEF StaysAfterWrite
<1>2. CASE tripType # "CITY" /\ stay # Absent
  <2>1. stay \in StayRequests /\ stay.nights \in Nat \ {0}
    BY <1>2 DEF StayRequests
  <2>2. DefaultRate(rate, s) \in Nat
    BY DEF DefaultRate, Settings
  <2> DEFINE r == Given(stay.rate, DefaultRate(rate, s))
  <2>3. r \in Nat
    BY <2>1, <2>2, GivenType DEF StayRequests
  <2>4. r * stay.nights \in Nat
    BY <2>1, <2>3
  <2>5. Given(stay.total, r * stay.nights) \in Nat
    BY <2>1, <2>4, GivenType DEF StayRequests
  <2> QED
    BY <1>2, <2>1, <2>3, <2>5 DEF StaysAfterWrite, Stays
<1> QED
  BY <1>1, <1>2

-----------------------------------------------------------------------------
(***************************************************************************)
(* Type correctness.                                                       *)
(***************************************************************************)

\* A committed transaction keeps the four tables it writes well typed.
LEMMA CommitType ==
  ASSUME TypeOK, NEW b \in BookingIds, NEW row \in Rows, NEW stays \in SUBSET Stays,
         NEW entries \in Seq(AuditEntries), Commit(b, row, stays, entries)
  PROVE  /\ bookings' \in [ BookingIds -> Rows \cup {NoBooking} ]
         /\ overnightStays' \in [ BookingIds -> SUBSET Stays ]
         /\ auditLog' \in [ BookingIds -> Seq(AuditEntries) ]
         /\ csn' \in Nat
<1>1. csn + 1 \in Nat
  BY DEF TypeOK
<1>2. [ row EXCEPT !.xmin = csn + 1 ] \in Rows
  BY <1>1 DEF Rows
<1>3. auditLog[b] \o entries \in Seq(AuditEntries)
  BY DEF TypeOK
<1> QED
  BY <1>1, <1>2, <1>3 DEF Commit, TypeOK

\* The state a handler enters after the checks of its transaction passed.
LEMMA WritingType ==
  ASSUME TypeOK, NEW role \in Roles, NEW b \in BookingIds, NEW row \in Rows,
         NEW stay \in StayRequests \cup {Absent}, NEW tripType \in TripTypes,
         NEW driver \in Drivers, NEW existing \in Rows \cup {NoBooking}
  PROVE  Writing(role, b, row, stay, tripType, driver, existing) \in WritingHandlers
<1> DEFINE answer == StayAnswer(tripType, stay, role)
<1> DEFINE stays == IF answer = "200"
                    THEN StaysAfterWrite(tripType, stay, drivers[driver].rate, settings)
                    ELSE {}
<1>1. answer \in Answers
  BY StayAnswerFacts
<1>2. stays \in SUBSET Stays
  <2>1. CASE answer = "200"
    <3>1. stay # Absent => stay.nights > 0
      BY <2>1, StayAnswerFacts
    <3>2. drivers[driver].rate \in Nat /\ settings \in Settings
      BY DEF TypeOK, DriverRows
    <3> QED
      BY <2>1, <3>1, <3>2, StaysType
  <2>2. CASE answer # "200"
    BY <2>2
  <2> QED
    BY <2>1, <2>2
<1>3. Snapshot \in Snapshots
  BY DEF Snapshot, Snapshots, TypeOK
<1>4. (answer = "200" /\ stay # Absent /\ WantsOverride(stay)) \in BOOLEAN
  OBVIOUS
<1> HIDE DEF answer, stays
<1> QED
  BY <1>1, <1>2, <1>3, <1>4 DEF Writing, WritingHandlers, answer, stays

\* The row of updateBooking keeps the columns' types.
LEMMA UpdatedRowType ==
  ASSUME NEW row \in Rows, NEW existing \in Rows, NEW in \in UpdateBodies,
         NEW window, window.from \in Int, window.to \in Int
  PROVE  UpdatedRow(row, in, window, existing) \in Rows
<1>1. StartOf(in, existing) \in Int /\ EndOf(in, existing) \in Int
  BY GivenType DEF StartOf, EndOf, Rows, UpdateBodies
<1>2. Given(in.voucher, row.voucher) \in Vouchers
  BY GivenType DEF Rows, UpdateBodies
<1>3. Given(in.customer, row.customer) \in Customers
  BY GivenType DEF Rows, UpdateBodies
<1>4. Given(in.vehicle, row.vehicle) \in Vehicles
  BY GivenType DEF Rows, UpdateBodies
<1>5. Given(in.driver, row.driver) \in Drivers
  BY GivenType DEF Rows, UpdateBodies
<1>6. Given(in.tripType, row.tripType) \in TripTypes
  BY GivenType DEF Rows, UpdateBodies
<1>7. Given(in.notes, row.notes) \in SUBSET Remarks
  BY GivenType DEF Rows, UpdateBodies
<1> QED
  BY <1>1, <1>2, <1>3, <1>4, <1>5, <1>6, <1>7 DEF UpdatedRow, Rows

LEMMA InitType == Init => TypeOK
<1> SUFFICES ASSUME Init PROVE TypeOK
  OBVIOUS
<1>1. Idle("200") \in HandlerStates
  BY DEF Idle, HandlerStates, IdleHandlers, Answers
<1>2. settings \in Settings
  BY BookingsAssumption DEF Init
<1>3. << >> \in Seq(AuditEntries)
  OBVIOUS
<1>4. [ status |-> "AVAILABLE", deleted |-> FALSE ] \in VehicleRows
  BY DEF VehicleRows, VehicleStatuses
<1>5. [ status |-> "AVAILABLE", deleted |-> FALSE, rate |-> 0 ] \in DriverRows
  BY DEF DriverRows, DriverStatuses
<1> QED
  BY <1>1, <1>2, <1>3, <1>4, <1>5 DEF Init, TypeOK

LEMMA OldStatusType ==
  ASSUME NEW existing \in Rows \cup {NoBooking}
  PROVE  OldStatus(existing) \in BookingStatuses \cup {Absent}
BY DEF OldStatus, Rows

\* The entries of a create or update transaction are audit entries.
LEMMA WriteEntriesType ==
  ASSUME NEW p \in WritingHandlers
  PROVE  WriteEntries(p) \in Seq(AuditEntries)
<1>1. Entry("OVERNIGHT_COST_OVERRIDDEN", p.role, Absent, Absent) \in AuditEntries
  BY DEF Entry, AuditEntries, WritingHandlers
<1>2. Entry(IF p.existing = NoBooking THEN "BOOKING_CREATED" ELSE "BOOKING_UPDATED",
            p.role, OldStatus(p.existing), p.row.status) \in AuditEntries
  BY OldStatusType DEF Entry, AuditEntries, WritingHandlers, Rows
<1> QED
  BY <1>1, <1>2 DEF WriteEntries

\* A handler inside a create or update transaction.
LEMMA WritingHandler ==
  ASSUME TypeOK, NEW h \in Handlers, handlers[h].stage = "writing"
  PROVE  handlers[h] \in WritingHandlers
  BY DEF TypeOK, HandlerStates, IdleHandlers, UpdatingHandlers,
         ChangingHandlers, CancellingHandlers, WritingHandlers

\* The steps that answer a request and change no table.
LEMMA AnswerOnlyType ==
  ASSUME TypeOK, NEW h \in Handlers,
         \/ RefuseCreate(h) \/ GetBooking(h) \/ RefuseWrite(h)
         \/ SerializationFailure(h) \/ Abort(h)
  PROVE  (\E answer \in Answers : Answer(h, answer)) /\ UNCHANGED << tables, fleet >>
<1>1. /\ "200" \in Answers /\ "400" \in Answers /\ "404" \in Answers
      /\ "409" \in Answers /\ "500" \in Answers
  BY DEF Answers
<1>2. CASE RefuseCreate(h)
  BY <1>1, <1>2 DEF RefuseCreate
<1>3. CASE GetBooking(h)
  BY <1>1, <1>3 DEF GetBooking
<1>4. CASE RefuseWrite(h)
  <2>1. handlers[h].stayAnswer \in Answers
    BY <1>4, WritingHandler DEF RefuseWrite, WritingHandlers
  <2> QED
    BY <1>1, <1>4, <2>1 DEF RefuseWrite
<1>5. CASE SerializationFailure(h)
  BY <1>1, <1>5 DEF SerializationFailure
<1>6. CASE Abort(h)
  BY <1>1, <1>6 DEF Abort
<1> QED
  BY <1>2, <1>3, <1>4, <1>5, <1>6

\* The row that updateBookingStatus or cancelBooking writes: the present row with
\* another status, hence the same vehicle, driver, trip and window.
StatusRow(h, row) ==
  LET p == handlers[h]
      now == bookings[p.booking]
  IN /\ row \in Rows
     /\ p.booking \in Existing /\ p.role \in Roles /\ p.existing \in Rows
     /\ row.vehicle = now.vehicle /\ row.driver = now.driver
     /\ row.startAt = now.startAt /\ row.endAt = now.endAt
     /\ row.from = now.from /\ row.to = now.to

LEMMA StatusRowWritten ==
  ASSUME TypeOK, HandlersOnExisting, NEW h \in Handlers, UpdateStatus(h) \/ CancelBooking(h)
  PROVE  \E row \in Rows, action \in {"BOOKING_STATUS_CHANGED", "BOOKING_CANCELLED"} :
           StatusRow(h, row) /\ WriteStatus(h, row, action)
<1> DEFINE p == handlers[h]
           now == bookings[p.booking]
<1>1. CASE UpdateStatus(h)
  <2> DEFINE row == [ now EXCEPT !.status = p.to,
                                 !.cancelledAt = CancelledAtAfter(p.to, p.existing) ]
  <2>1. p \in ChangingHandlers
    BY <1>1 DEF UpdateStatus, TypeOK, HandlerStates, IdleHandlers, UpdatingHandlers,
                ChangingHandlers, CancellingHandlers, WritingHandlers
  <2>2. /\ p.to \in BookingStatuses /\ p.existing \in Rows /\ p.role \in Roles
        /\ p.booking \in BookingIds
    BY <2>1 DEF ChangingHandlers
  <2>3. p.booking \in Existing /\ now \in Rows
    BY <2>1, <2>2 DEF HandlersOnExisting, ChangingHandlers, Existing, TypeOK
  <2>4. CancelledAtAfter(p.to, p.existing) \in BOOLEAN
    BY <2>2 DEF CancelledAtAfter, Rows
  <2>5. StatusRow(h, row)
    BY <2>2, <2>3, <2>4 DEF StatusRow, Rows
  <2>6. WriteStatus(h, row, "BOOKING_STATUS_CHANGED")
    BY <1>1 DEF UpdateStatus
  <2>7. row \in Rows
    BY <2>5 DEF StatusRow
  <2> HIDE DEF row
  <2> QED
    BY <2>5, <2>6, <2>7
<1>2. CASE CancelBooking(h)
  <2> DEFINE notes == NotesAfterCancel(p.existing, p.reason)
             row == [ now EXCEPT !.status = "CANCELLED", !.cancelledAt = TRUE, !.notes = notes ]
  <2>1. p \in CancellingHandlers
    BY <1>2 DEF CancelBooking, TypeOK, HandlerStates, IdleHandlers, UpdatingHandlers,
                ChangingHandlers, CancellingHandlers, WritingHandlers
  <2>2. /\ p.reason \in Remarks \cup {Absent} /\ p.existing \in Rows /\ p.role \in Roles
        /\ p.booking \in BookingIds
    BY <2>1 DEF CancellingHandlers
  <2>3. p.booking \in Existing /\ now \in Rows
    BY <2>1, <2>2 DEF HandlersOnExisting, CancellingHandlers, Existing, TypeOK
  <2>4. notes \in SUBSET Remarks
    BY <2>2 DEF NotesAfterCancel, Rows
  <2>5. StatusRow(h, row)
    BY <2>2, <2>3, <2>4 DEF StatusRow, Rows, BookingStatuses
  <2>6. WriteStatus(h, row, "BOOKING_CANCELLED")
    BY <1>2 DEF CancelBooking
  <2>7. row \in Rows
    BY <2>5 DEF StatusRow
  <2> HIDE DEF row
  <2> QED
    BY <2>5, <2>6, <2>7
<1> QED
  BY <1>1, <1>2

LEMMA FleetType ==
  ASSUME TypeOK, FleetStep
  PROVE  TypeOK' /\ UNCHANGED << tables, handlers >>
<1>1. ASSUME NEW v \in Vehicles, WriteVehicle(v)
      PROVE  vehicles' \in [ Vehicles -> VehicleRows ]
  <2>1. ASSUME NEW status \in VehicleStatusInputs,
               vehicles' = [ vehicles EXCEPT ![v].status = status ]
        PROVE  vehicles' \in [ Vehicles -> VehicleRows ]
    BY <2>1, BookingsAssumption DEF TypeOK, VehicleRows
  <2>2. [ status |-> "INACTIVE", deleted |-> TRUE ] \in VehicleRows
    BY DEF VehicleRows, VehicleStatuses
  <2> QED
    BY <1>1, <2>1, <2>2 DEF WriteVehicle, TypeOK
<1>2. ASSUME NEW d \in Drivers, WriteDriver(d)
      PROVE  drivers' \in [ Drivers -> DriverRows ]
  <2>1. ASSUME NEW status \in DriverStatusInputs \cup {drivers[d].status},
               NEW rate \in DriverRates \cup {drivers[d].rate},
               drivers' = [ drivers EXCEPT ![d].status = status, ![d].rate = rate ]
        PROVE  drivers' \in [ Drivers -> DriverRows ]
    <3>1. drivers[d] \in DriverRows
      BY DEF TypeOK
    <3>2. status \in DriverStatuses /\ rate \in Nat
      BY <3>1, BookingsAssumption DEF DriverRows
    <3> QED
      BY <2>1, <3>2 DEF TypeOK, DriverRows
  <2>3. ASSUME drivers' = [ drivers EXCEPT ![d].status = "INACTIVE", ![d].deleted = TRUE ]
        PROVE  drivers' \in [ Drivers -> DriverRows ]
    BY <2>3 DEF TypeOK, DriverRows, DriverStatuses
  <2> QED
    BY <1>2, <2>1, <2>3 DEF WriteDriver
<1>3. CASE \E v \in Vehicles : WriteVehicle(v)
  BY <1>1, <1>3 DEF WriteVehicle, TypeOK, tables
<1>4. CASE \E d \in Drivers : WriteDriver(d)
  BY <1>2, <1>4 DEF WriteDriver, TypeOK, tables
<1>5. CASE \E c \in Customers : DeleteCustomer(c)
  BY <1>5 DEF DeleteCustomer, TypeOK, tables
<1>6. CASE UpdateSettings
  BY <1>6, BookingsAssumption DEF UpdateSettings, TypeOK, tables
<1> QED
  BY <1>3, <1>4, <1>5, <1>6 DEF FleetStep

-----------------------------------------------------------------------------
(***************************************************************************)
(* What a step can do to the tables: nothing, or one commit.               *)
(***************************************************************************)

\* A transaction that commits leaves one booking with a row that passed the
\* table's constraints, and its last audit entry tells the row's status.
Committed(b, row, entries) ==
  /\ b \in BookingIds /\ row \in Rows
  /\ ChecksHold(row) /\ ExclusionHolds(b, row)
  /\ entries \in Seq(AuditEntries) /\ entries # << >>
  /\ entries[Len(entries)].new = row.status
  /\ \E stays \in SUBSET Stays : Commit(b, row, stays, entries)

LEMMA CommitWriteForm ==
  ASSUME TypeOK, NEW h \in Handlers, CommitWrite(h)
  PROVE  LET p == handlers[h] IN
         p \in WritingHandlers /\ Committed(p.booking, p.row, WriteEntries(p))
<1> DEFINE p == handlers[h]
           first == IF p.override
                    THEN << Entry("OVERNIGHT_COST_OVERRIDDEN", p.role, Absent, Absent) >>
                    ELSE << >>
           last == Entry(IF p.existing = NoBooking THEN "BOOKING_CREATED" ELSE "BOOKING_UPDATED",
                         p.role, OldStatus(p.existing), p.row.status)
<1>1. p \in WritingHandlers
  BY WritingHandler DEF CommitWrite
<1>2. WriteEntries(p) \in Seq(AuditEntries)
  BY <1>1, WriteEntriesType
<1>3. first \in Seq(AuditEntries) /\ last \in AuditEntries
  <2>1. Entry("OVERNIGHT_COST_OVERRIDDEN", p.role, Absent, Absent) \in AuditEntries
    BY <1>1 DEF Entry, AuditEntries, WritingHandlers
  <2>2. first \in Seq(AuditEntries)
    BY <2>1
  <2>3. last \in AuditEntries
    BY <1>1, OldStatusType DEF Entry, AuditEntries, WritingHandlers, Rows
  <2> QED
    BY <2>2, <2>3
<1>4. WriteEntries(p) = first \o << last >>
  BY DEF WriteEntries
<1>5. last.new = p.row.status
  BY DEF Entry
<1>6. WriteEntries(p) # << >> /\ WriteEntries(p)[Len(WriteEntries(p))] = last
  <2> HIDE DEF first, last
  <2> QED
    BY <1>3, <1>4
<1> QED
  BY <1>1, <1>2, <1>5, <1>6 DEF Committed, CommitWrite, WritingHandlers

LEMMA StatusWriteForm ==
  ASSUME TypeOK, HandlersOnExisting, NEW h \in Handlers, UpdateStatus(h) \/ CancelBooking(h)
  PROVE  \/ UNCHANGED tables
         \/ \E row, entries : /\ StatusRow(h, row)
                              /\ Committed(handlers[h].booking, row, entries)
<1>1. PICK row \in Rows, action \in {"BOOKING_STATUS_CHANGED", "BOOKING_CANCELLED"} :
        StatusRow(h, row) /\ WriteStatus(h, row, action)
  BY StatusRowWritten
<1> DEFINE p == handlers[h]
           entry == Entry(action, p.role, p.existing.status, row.status)
<1>2. CASE UNCHANGED << tables, fleet >>
  BY <1>2
<1>3. CASE /\ ExclusionHolds(p.booking, row) /\ ChecksHold(row)
           /\ Commit(p.booking, row, overnightStays[p.booking], << entry >>)
  <2>1. entry \in AuditEntries /\ entry.new = row.status
    BY <1>1 DEF StatusRow, Entry, AuditEntries, Rows
  <2>2. /\ << entry >> \in Seq(AuditEntries) /\ << entry >> # << >>
        /\ << entry >>[Len(<< entry >>)].new = row.status
    <3> HIDE DEF entry
    <3> QED
      BY <2>1
  <2>3. /\ p.booking \in BookingIds /\ row \in Rows
        /\ overnightStays[p.booking] \in SUBSET Stays
    BY <1>1 DEF StatusRow, Existing, TypeOK
  <2>4. Committed(p.booking, row, << entry >>)
    <3> HIDE DEF entry
    <3> QED
      BY <1>3, <2>2, <2>3 DEF Committed
  <2> QED
    BY <1>1, <2>4
<1> QED
  BY <1>1, <1>2, <1>3 DEF WriteStatus

\* Every step on the tables is a commit or leaves them alone.
LEMMA StepForm ==
  ASSUME TypeOK, HandlersOnExisting, Next
  PROVE  UNCHANGED tables \/ \E b, row, entries : Committed(b, row, entries)
<1>1. CASE FleetStep
  BY <1>1, FleetType
<1>2. ASSUME NEW h \in Handlers, HandlerStep(h)
      PROVE  UNCHANGED tables \/ \E b, row, entries : Committed(b, row, entries)
  <2>1. CASE BeginCreate(h) \/ BeginUpdate(h)
    BY <2>1 DEF BeginCreate, BeginUpdate
  <2>2. CASE ReadForUpdate(h) \/ ReadForStatus(h) \/ ReadForCancel(h)
    BY <2>2 DEF ReadForUpdate, ReadForStatus, ReadForCancel
  <2>3. CASE CommitWrite(h)
    BY <2>3, CommitWriteForm
  <2>4. CASE UpdateStatus(h) \/ CancelBooking(h)
    BY <2>4, StatusWriteForm
  <2>5. CASE \/ RefuseCreate(h) \/ GetBooking(h) \/ RefuseWrite(h)
             \/ SerializationFailure(h) \/ Abort(h)
    BY <2>5, AnswerOnlyType
  <2> QED
    BY <1>2, <2>1, <2>2, <2>3, <2>4, <2>5 DEF HandlerStep
<1> QED
  BY <1>1, <1>2 DEF Next

\* After a commit the booking has the row, numbered, and the others are as before.
LEMMA CommittedRow ==
  ASSUME TypeOK, NEW b, NEW row, NEW entries, Committed(b, row, entries)
  PROVE  /\ bookings'[b] = [ row EXCEPT !.xmin = csn + 1 ]
         /\ bookings'[b] \in Rows /\ bookings'[b] # NoBooking
         /\ \A c \in BookingIds \ {b} : bookings'[c] = bookings[c]
         /\ Existing' = Existing \cup {b}
<1>1. csn + 1 \in Nat /\ row \in Rows /\ b \in BookingIds
  BY DEF Committed, TypeOK
<1>2. [ row EXCEPT !.xmin = csn + 1 ] \in Rows
  BY <1>1 DEF Rows
<1>3. bookings' = [ bookings EXCEPT ![b] = [ row EXCEPT !.xmin = csn + 1 ] ]
  BY DEF Committed, Commit
<1>4. bookings'[b] = [ row EXCEPT !.xmin = csn + 1 ]
  BY <1>1, <1>3 DEF TypeOK
<1>5. \A c \in BookingIds \ {b} : bookings'[c] = bookings[c]
  BY <1>3 DEF TypeOK
<1>6. bookings'[b] # NoBooking
  BY <1>2, <1>4, BookingsAssumption
<1> QED
  BY <1>1, <1>2, <1>4, <1>5, <1>6 DEF Existing

\* A row is never deleted.
LEMMA ExistingKept ==
  ASSUME TypeOK, HandlersOnExisting, Next
  PROVE  Existing \subseteq Existing'
<1>1. CASE UNCHANGED tables
  BY <1>1 DEF tables, Existing
<1>2. CASE \E b, row, entries : Committed(b, row, entries)
  BY <1>2, CommittedRow
<1> QED
  BY <1>1, <1>2, StepForm

\* What a handler holds when it has moved: its variables' types, a booking that exists when it has just
\* read one, a row whose window covers its trip when it is about to write one.
Sound(state) ==
  /\ state \in HandlerStates
  /\ state.stage \in {"updating", "changing", "cancelling"} => state.booking \in Existing
  /\ state.stage = "writing" => Covered(state.row)

LEMMA AnswerSound ==
  ASSUME NEW h \in Handlers, NEW answer \in Answers, Answer(h, answer)
  PROVE  \E state : handlers' = [ handlers EXCEPT ![h] = state ] /\ Sound(state)
<1>1. Sound(Idle(answer))
  BY DEF Sound, Idle, HandlerStates, IdleHandlers
<1> QED
  BY <1>1 DEF Answer

LEMMA CreateSound ==
  ASSUME TypeOK, NEW h \in Handlers, BeginCreate(h)
  PROVE  \E state : handlers' = [ handlers EXCEPT ![h] = state ] /\ Sound(state)
<1>1. PICK role \in Actors, in \in CreateInputs, b \in FreshIds :
        handlers' = [ handlers EXCEPT ![h] =
          Writing(role, b,
                  CreatedRow(in, ResolveWindow(in.tripType, in.startAt, in.endAt, settings)),
                  in.stay, in.tripType, in.driver, NoBooking) ]
  BY DEF BeginCreate
<1> DEFINE window == ResolveWindow(in.tripType, in.startAt, in.endAt, settings)
           row == CreatedRow(in, window)
           state == Writing(role, b, row, in.stay, in.tripType, in.driver, NoBooking)
<1>2. role \in Roles /\ in \in CreateBodies /\ b \in BookingIds
  BY BookingsAssumption DEF FreshIds
<1>3. /\ window.from \in Int /\ window.to \in Int
      /\ window.from <= in.startAt /\ in.endAt <= window.to
  BY <1>2, WindowCovers DEF CreateBodies, TypeOK
<1>4. row \in Rows /\ Covered(row)
  <2> HIDE DEF window
  <2> QED
    BY <1>2, <1>3 DEF CreatedRow, CreateBodies, Rows, Covered
<1>5. in.stay \in StayRequests \cup {Absent} /\ in.tripType \in TripTypes /\ in.driver \in Drivers
  BY <1>2 DEF CreateBodies
<1> HIDE DEF row
<1>6. state \in HandlerStates
  BY <1>2, <1>4, <1>5, WritingType DEF HandlerStates
<1>7. Sound(state)
  BY <1>4, <1>6 DEF Sound, Writing
<1>8. handlers' = [ handlers EXCEPT ![h] = state ]
  BY <1>1 DEF row
<1> HIDE DEF state
<1> QED
  BY <1>7, <1>8

LEMMA UpdateSound ==
  ASSUME TypeOK, HandlersOnExisting, NEW h \in Handlers, BeginUpdate(h)
  PROVE  \E state : handlers' = [ handlers EXCEPT ![h] = state ] /\ Sound(state)
<1> DEFINE p == handlers[h]
           in == p.input
           driver == Given(in.driver, p.existing.driver)
           tripType == Given(in.tripType, p.existing.tripType)
           window == ResolveWindow(tripType, StartOf(in, p.existing), EndOf(in, p.existing),
                                   settings)
           row == UpdatedRow(bookings[p.booking], in, window, p.existing)
           state == Writing(p.role, p.booking, row, in.stay, tripType, driver, p.existing)
<1>1. p \in UpdatingHandlers
  BY DEF BeginUpdate, TypeOK, HandlerStates, IdleHandlers, UpdatingHandlers,
         ChangingHandlers, CancellingHandlers, WritingHandlers
<1>2. /\ in \in UpdateBodies /\ p.existing \in Rows /\ p.role \in Roles
      /\ p.booking \in BookingIds
  BY <1>1 DEF UpdatingHandlers
<1>3. bookings[p.booking] \in Rows
  BY <1>1, <1>2 DEF HandlersOnExisting, Existing, TypeOK, UpdatingHandlers
<1>4. StartOf(in, p.existing) \in Int /\ EndOf(in, p.existing) \in Int
  BY <1>2, GivenType DEF StartOf, EndOf, Rows, UpdateBodies
<1>5. /\ window.from \in Int /\ window.to \in Int
      /\ window.from <= StartOf(in, p.existing) /\ EndOf(in, p.existing) <= window.to
  BY <1>4, WindowCovers DEF TypeOK
<1>6. row \in Rows
  BY <1>2, <1>3, <1>5, UpdatedRowType
<1>7. Covered(row)
  <2> HIDE DEF window
  <2> QED
    BY <1>3, <1>5 DEF Covered, UpdatedRow, Rows
<1>8. driver \in Drivers /\ tripType \in TripTypes
  BY <1>2, GivenType DEF Rows, UpdateBodies
<1>9. in.stay \in StayRequests \cup {Absent} /\ p.existing \in Rows \cup {NoBooking}
  BY <1>2 DEF Rows, UpdateBodies
<1> HIDE DEF row
<1>10. state \in HandlerStates
  BY <1>2, <1>6, <1>8, <1>9, WritingType DEF HandlerStates
<1>11. Sound(state)
  BY <1>7, <1>10 DEF Sound, Writing
<1>12. \/ Answer(h, "400") \/ Answer(h, "409")
       \/ handlers' = [ handlers EXCEPT ![h] = state ]
  BY DEF BeginUpdate, row
<1>13. "400" \in Answers /\ "409" \in Answers
  BY DEF Answers
<1> HIDE DEF state
<1> QED
  BY <1>11, <1>12, <1>13, AnswerSound

\* The three reads of getBooking keep what they read and what they were asked.
LEMMA ReadSound ==
  ASSUME TypeOK, NEW h \in Handlers,
         ReadForUpdate(h) \/ ReadForStatus(h) \/ ReadForCancel(h)
  PROVE  \E state : handlers' = [ handlers EXCEPT ![h] = state ] /\ Sound(state)
<1>1. \A b \in Existing : b \in BookingIds /\ bookings[b] \in Rows
  BY DEF Existing, TypeOK
<1>2. "400" \in Answers /\ "403" \in Answers
  BY DEF Answers
<1>3. CASE ReadForUpdate(h)
  <2>1. PICK role \in Actors, in \in UpdateInputs, b \in Existing :
          \/ Answer(h, "403") \/ Answer(h, "400")
          \/ handlers' = [ handlers EXCEPT ![h] =
               [ stage |-> "updating", role |-> role, booking |-> b,
                 existing |-> bookings[b], input |-> in ] ]
    BY <1>3 DEF ReadForUpdate
  <2>2. Sound([ stage |-> "updating", role |-> role, booking |-> b,
                existing |-> bookings[b], input |-> in ])
    BY <1>1, BookingsAssumption DEF Sound, HandlerStates, UpdatingHandlers
  <2> QED
    BY <1>2, <2>1, <2>2, AnswerSound
<1>4. CASE ReadForStatus(h)
  <2>1. PICK role \in Actors, to \in StatusInputs, b \in Existing :
          \/ Answer(h, "400")
          \/ handlers' = [ handlers EXCEPT ![h] =
               [ stage |-> "changing", role |-> role, booking |-> b,
                 existing |-> bookings[b], to |-> to ] ]
    BY <1>4 DEF ReadForStatus
  <2>2. Sound([ stage |-> "changing", role |-> role, booking |-> b,
                existing |-> bookings[b], to |-> to ])
    BY <1>1, BookingsAssumption DEF Sound, HandlerStates, ChangingHandlers
  <2> QED
    BY <1>2, <2>1, <2>2, AnswerSound
<1>5. CASE ReadForCancel(h)
  <2>1. PICK role \in Actors, reason \in CancelInputs, b \in Existing :
          \/ Answer(h, "400")
          \/ handlers' = [ handlers EXCEPT ![h] =
               [ stage |-> "cancelling", role |-> role, booking |-> b,
                 existing |-> bookings[b], reason |-> reason ] ]
    BY <1>5 DEF ReadForCancel
  <2>2. Sound([ stage |-> "cancelling", role |-> role, booking |-> b,
                existing |-> bookings[b], reason |-> reason ])
    BY <1>1, BookingsAssumption DEF Sound, HandlerStates, CancellingHandlers
  <2> QED
    BY <1>2, <2>1, <2>2, AnswerSound
<1> QED
  BY <1>3, <1>4, <1>5

LEMMA HandlerMoves ==
  ASSUME TypeOK, HandlersOnExisting, NEW h \in Handlers, HandlerStep(h)
  PROVE  \E state : handlers' = [ handlers EXCEPT ![h] = state ] /\ Sound(state)
<1>1. CASE BeginCreate(h)
  BY <1>1, CreateSound
<1>2. CASE ReadForUpdate(h) \/ ReadForStatus(h) \/ ReadForCancel(h)
  BY <1>2, ReadSound
<1>3. CASE BeginUpdate(h)
  BY <1>3, UpdateSound
<1>4. CASE CommitWrite(h)
  <2>1. Answer(h, "200") /\ "200" \in Answers
    BY <1>4 DEF CommitWrite, Answers
  <2> QED
    BY <2>1, AnswerSound
<1>5. CASE UpdateStatus(h) \/ CancelBooking(h)
  <2>1. \E answer \in Answers : Answer(h, answer)
    BY <1>5, StatusRowWritten DEF WriteStatus, Answers
  <2> QED
    BY <2>1, AnswerSound
<1>6. CASE \/ RefuseCreate(h) \/ GetBooking(h) \/ RefuseWrite(h)
           \/ SerializationFailure(h) \/ Abort(h)
  BY <1>6, AnswerOnlyType, AnswerSound
<1> QED
  BY <1>1, <1>2, <1>3, <1>4, <1>5, <1>6 DEF HandlerStep

\* A handler's step leaves the vehicles, drivers, customers and settings alone.
LEMMA HandlerLeavesFleet ==
  ASSUME TypeOK, HandlersOnExisting, NEW h \in Handlers, HandlerStep(h)
  PROVE  UNCHANGED fleet
<1>1. CASE UpdateStatus(h) \/ CancelBooking(h)
  BY <1>1, StatusRowWritten DEF WriteStatus
<1> QED
  BY <1>1 DEF HandlerStep, RefuseCreate, BeginCreate, GetBooking, ReadForUpdate, ReadForStatus,
              ReadForCancel, BeginUpdate, CommitWrite, RefuseWrite, SerializationFailure, Abort

-----------------------------------------------------------------------------
(***************************************************************************)
(* The inductive invariant.                                                *)
(***************************************************************************)

IInv == TypeOK /\ BookingInv

LEMMA TypeStep ==
  ASSUME TypeOK, HandlersOnExisting, Next
  PROVE  TypeOK'
<1>1. /\ bookings' \in [ BookingIds -> Rows \cup {NoBooking} ]
      /\ overnightStays' \in [ BookingIds -> SUBSET Stays ]
      /\ auditLog' \in [ BookingIds -> Seq(AuditEntries) ]
      /\ csn' \in Nat
  <2>1. CASE UNCHANGED tables
    BY <2>1 DEF TypeOK, tables
  <2>2. CASE \E b, row, entries : Committed(b, row, entries)
    BY <2>2, CommitType DEF Committed
  <2> QED
    BY <2>1, <2>2, StepForm
<1>2. CASE FleetStep
  BY <1>2, FleetType
<1>3. ASSUME NEW h \in Handlers, HandlerStep(h)
      PROVE  TypeOK'
  <2>1. handlers' \in [ Handlers -> HandlerStates ]
    BY <1>3, HandlerMoves DEF Sound, TypeOK
  <2>2. UNCHANGED fleet
    BY <1>3, HandlerLeavesFleet
  <2> QED
    BY <1>1, <2>1, <2>2 DEF TypeOK, fleet
<1> QED
  BY <1>2, <1>3 DEF Next

LEMMA HandlersStep ==
  ASSUME TypeOK, HandlersOnExisting, Next,
         \A h \in Handlers : handlers[h].stage = "writing" => Covered(handlers[h].row)
  PROVE  /\ HandlersOnExisting'
         /\ \A h \in Handlers : handlers'[h].stage = "writing" => Covered(handlers'[h].row)
<1>1. Existing \subseteq Existing'
  BY ExistingKept
<1>2. CASE FleetStep
  BY <1>1, <1>2, FleetType DEF HandlersOnExisting
<1>3. ASSUME NEW h \in Handlers, HandlerStep(h)
      PROVE  /\ HandlersOnExisting'
             /\ \A g \in Handlers : handlers'[g].stage = "writing" => Covered(handlers'[g].row)
  <2>1. PICK state : handlers' = [ handlers EXCEPT ![h] = state ] /\ Sound(state)
    BY <1>3, HandlerMoves
  <2>2. handlers'[h] = state /\ \A g \in Handlers \ {h} : handlers'[g] = handlers[g]
    BY <2>1 DEF TypeOK
  <2> QED
    BY <1>1, <2>1, <2>2 DEF Sound, HandlersOnExisting
<1> QED
  BY <1>2, <1>3 DEF Next

\* A commit that passes the exclusion constraints keeps the windows disjoint.
LEMMA DisjointStep ==
  ASSUME TypeOK, WindowsDisjoint, NEW b, NEW row, NEW entries, Committed(b, row, entries)
  PROVE  WindowsDisjoint'
<1> DEFINE new == bookings'[b]
<1>1. /\ new = [ row EXCEPT !.xmin = csn + 1 ] /\ row \in Rows
      /\ \A c \in BookingIds \ {b} : bookings'[c] = bookings[c]
      /\ Existing' = Existing \cup {b}
  BY CommittedRow DEF Committed
<1>2. /\ new.vehicle = row.vehicle /\ new.driver = row.driver /\ new.status = row.status
      /\ new.from = row.from /\ new.to = row.to /\ row.from \in Int /\ row.to \in Int
  BY <1>1 DEF Rows
<1>3. ASSUME NEW c \in Existing \ {b}, Blocking(new), Blocking(bookings[c]),
             ShareResource(new, bookings[c])
      PROVE  /\ ~ HasHalfOpenOverlap(new.from, new.to, bookings[c].from, bookings[c].to)
             /\ ~ HasHalfOpenOverlap(bookings[c].from, bookings[c].to, new.from, new.to)
  <2>1. bookings[c] \in RowsBut(b)
    BY DEF RowsBut
  <2>2. Conflicts(row.vehicle, row.driver, row, RowsBut(b)) = {}
    BY <1>2, <1>3 DEF Committed, ExclusionHolds, Blocking
  <2>3. ~ HasHalfOpenOverlap(row.from, row.to, bookings[c].from, bookings[c].to)
    BY <1>2, <1>3, <2>1, <2>2 DEF Conflicts, OverlappingRows, ShareResource
  <2>4. bookings[c].from \in Int /\ bookings[c].to \in Int
    BY DEF TypeOK, Existing, Rows
  <2> QED
    BY <1>2, <2>3, <2>4 DEF HasHalfOpenOverlap
<1>4. ASSUME NEW c \in Existing', NEW d \in Existing', c # d,
             Blocking(bookings'[c]), Blocking(bookings'[d]),
             ShareResource(bookings'[c], bookings'[d])
      PROVE  ~ HasHalfOpenOverlap(bookings'[c].from, bookings'[c].to,
                                  bookings'[d].from, bookings'[d].to)
  <2>0. Existing \subseteq BookingIds
    BY DEF Existing
  <2>1. CASE c # b /\ d # b
    <3>1. c \in Existing /\ d \in Existing /\ bookings'[c] = bookings[c] /\ bookings'[d] = bookings[d]
      BY <1>1, <2>0, <2>1
    <3> QED
      BY <1>4, <3>1 DEF WindowsDisjoint
  <2>2. CASE c = b
    <3>1. d \in Existing \ {b} /\ bookings'[d] = bookings[d]
      BY <1>1, <1>4, <2>0, <2>2
    <3> QED
      BY <1>3, <1>4, <2>2, <3>1
  <2>3. CASE d = b
    <3>1. c \in Existing \ {b} /\ bookings'[c] = bookings[c]
      BY <1>1, <1>4, <2>0, <2>3
    <3>2. ShareResource(new, bookings[c])
      BY <1>4, <2>3, <3>1 DEF ShareResource
    <3> QED
      BY <1>3, <1>4, <2>3, <3>1, <3>2
  <2> QED
    BY <2>1, <2>2, <2>3
<1> QED
  BY <1>4 DEF WindowsDisjoint

\* Every row committed covers its trip, because the rows in flight do.
LEMMA CoveredStep ==
  ASSUME IInv, Next
  PROVE  \A b \in Existing' : Covered(bookings'[b])
<1>1. CASE UNCHANGED tables
  BY <1>1 DEF tables, IInv, BookingInv, Existing
<1>2. ASSUME NEW b, NEW row, NEW entries, Committed(b, row, entries), Covered(row)
      PROVE  \A c \in Existing' : Covered(bookings'[c])
  <2>1. bookings'[b] = [ row EXCEPT !.xmin = csn + 1 ] /\ row \in Rows
    BY <1>2, CommittedRow DEF IInv, Committed
  <2>2. Covered(bookings'[b])
    BY <1>2, <2>1 DEF Covered, Rows
  <2> QED
    BY <1>2, <2>2, CommittedRow DEF IInv, BookingInv, Existing
<1>3. ASSUME NEW h \in Handlers, CommitWrite(h)
      PROVE  \A c \in Existing' : Covered(bookings'[c])
  <2>1. Covered(handlers[h].row)
    BY <1>3 DEF CommitWrite, IInv, BookingInv
  <2> QED
    BY <1>2, <1>3, <2>1, CommitWriteForm DEF IInv
<1>4. ASSUME NEW h \in Handlers, UpdateStatus(h) \/ CancelBooking(h)
      PROVE  \A c \in Existing' : Covered(bookings'[c])
  <2>1. CASE UNCHANGED tables
    BY <1>1, <2>1
  <2>2. ASSUME NEW row, NEW entries, StatusRow(h, row),
               Committed(handlers[h].booking, row, entries)
        PROVE  \A c \in Existing' : Covered(bookings'[c])
    <3>1. Covered(row)
      BY <2>2 DEF StatusRow, IInv, BookingInv, Covered
    <3> QED
      BY <1>2, <2>2, <3>1
  <2> QED
    BY <1>4, <2>1, <2>2, StatusWriteForm DEF IInv, BookingInv
<1>5. ASSUME NEW h \in Handlers, HandlerStep(h), ~ CommitWrite(h),
             ~ UpdateStatus(h), ~ CancelBooking(h)
      PROVE  UNCHANGED tables
  BY <1>5, AnswerOnlyType DEF HandlerStep, IInv, BeginCreate, BeginUpdate, ReadForUpdate,
                              ReadForStatus, ReadForCancel
<1>6. CASE FleetStep
  BY <1>1, <1>6, FleetType DEF IInv
<1> QED
  BY <1>1, <1>3, <1>4, <1>5, <1>6 DEF Next

LEMMA InvStep == IInv /\ [Next]_vars => IInv'
<1> SUFFICES ASSUME IInv, [Next]_vars PROVE IInv'
  OBVIOUS
<1>1. CASE Next
  <2>1. TypeOK'
    BY <1>1, TypeStep DEF IInv, BookingInv
  <2>2. /\ HandlersOnExisting'
        /\ \A h \in Handlers : handlers'[h].stage = "writing" => Covered(handlers'[h].row)
    BY <1>1, HandlersStep DEF IInv, BookingInv
  <2>3. WindowsDisjoint'
    <3>1. CASE UNCHANGED tables
      BY <3>1 DEF tables, IInv, BookingInv, WindowsDisjoint, Existing
    <3> QED
      BY <1>1, <3>1, StepForm, DisjointStep DEF IInv, BookingInv
  <2>4. \A b \in Existing' : Covered(bookings'[b])
    BY <1>1, CoveredStep
  <2> QED
    BY <2>1, <2>2, <2>3, <2>4 DEF IInv, BookingInv
<1>2. CASE UNCHANGED vars
  BY <1>2 DEF vars, tables, fleet, IInv, BookingInv, TypeOK, HandlersOnExisting,
              WindowsDisjoint, Existing
<1> QED
  BY <1>1, <1>2

LEMMA InvInit == Init => IInv
<1> SUFFICES ASSUME Init PROVE IInv
  OBVIOUS
<1>1. Existing = {}
  BY DEF Init, Existing
<1>2. \A h \in Handlers : handlers[h].stage = "idle"
  BY DEF Init, Idle
<1> QED
  BY <1>1, <1>2, InitType DEF IInv, BookingInv, HandlersOnExisting, WindowsDisjoint

\* The inductive invariant holds in every reachable state.
THEOREM Invariance == Spec => []IInv
  BY InvInit, InvStep, PTL DEF Spec

\* Handlers work on rows that exist, the windows of active bookings are disjoint
\* and every window, stored or about to be, covers its trip.
THEOREM BookingInvariant == Spec => []BookingInv
<1>1. IInv => BookingInv
  BY DEF IInv
<1> QED
  BY <1>1, Invariance, PTL

\* The tables and the handlers' variables keep their types, for every set of
\* inputs of the right types (schema.prisma, booking.schemas.ts).
THEOREM TypeCorrect == Spec => []TypeOK
<1>1. IInv => TypeOK
  BY DEF IInv
<1> QED
  BY <1>1, Invariance, PTL

\* The trips of two active bookings on one vehicle or one driver never overlap.
THEOREM NoDoubleBooking == Spec => []TripsDisjoint
<1>1. IInv => TripsDisjoint
  <2> SUFFICES ASSUME IInv, NEW b \in Existing, NEW c \in Existing, b # c,
                      Blocking(bookings[b]), Blocking(bookings[c]),
                      ShareResource(bookings[b], bookings[c])
               PROVE  ~ HasHalfOpenOverlap(bookings[b].startAt, bookings[b].endAt,
                                           bookings[c].startAt, bookings[c].endAt)
    BY DEF TripsDisjoint
  <2>1. bookings[b] \in Rows /\ bookings[c] \in Rows
    BY DEF IInv, TypeOK, Existing
  <2>2. Covered(bookings[b]) /\ Covered(bookings[c])
    BY DEF IInv, BookingInv
  <2>3. ~ HasHalfOpenOverlap(bookings[b].from, bookings[b].to, bookings[c].from, bookings[c].to)
    BY DEF IInv, BookingInv, WindowsDisjoint
  <2> QED
    BY <2>1, <2>2, <2>3 DEF Covered, HasHalfOpenOverlap, Rows
<1> QED
  BY <1>1, Invariance, PTL

-----------------------------------------------------------------------------
(***************************************************************************)
(* The audit log.                                                          *)
(***************************************************************************)

LEMMA AuditStep == IInv /\ AuditTellsStatus /\ [Next]_vars => AuditTellsStatus'
<1> SUFFICES ASSUME IInv, AuditTellsStatus, [Next]_vars PROVE AuditTellsStatus'
  OBVIOUS
<1>1. CASE UNCHANGED tables
  BY <1>1 DEF tables, AuditTellsStatus, Existing
<1>2. ASSUME NEW b, NEW row, NEW entries, Committed(b, row, entries)
      PROVE  AuditTellsStatus'
  <2>1. /\ bookings'[b] = [ row EXCEPT !.xmin = csn + 1 ] /\ row \in Rows
        /\ \A c \in BookingIds \ {b} : bookings'[c] = bookings[c]
        /\ Existing' = Existing \cup {b}
    BY <1>2, CommittedRow DEF IInv, Committed
  <2>2. bookings'[b].status = row.status
    BY <2>1 DEF Rows
  <2>3. /\ auditLog'[b] = auditLog[b] \o entries
        /\ \A c \in BookingIds \ {b} : auditLog'[c] = auditLog[c]
    BY <1>2 DEF Committed, Commit, IInv, TypeOK
  <2>4. auditLog[b] \in Seq(AuditEntries)
    BY <1>2 DEF Committed, IInv, TypeOK
  <2>5. auditLog'[b] # << >> /\ auditLog'[b][Len(auditLog'[b])] = entries[Len(entries)]
    BY <1>2, <2>3, <2>4 DEF Committed
  <2>6. auditLog'[b] # << >> /\ auditLog'[b][Len(auditLog'[b])].new = bookings'[b].status
    BY <1>2, <2>2, <2>5 DEF Committed
  <2> QED
    BY <2>1, <2>3, <2>6 DEF AuditTellsStatus, Existing
<1> QED
  BY <1>1, <1>2, StepForm DEF IInv, BookingInv, vars

\* The last audit entry of every booking tells its present status: a status
\* change and its audit entry are committed together, in every interleaving.
THEOREM AuditIsCurrent == Spec => []AuditTellsStatus
<1>1. Init => AuditTellsStatus
  BY DEF Init, AuditTellsStatus, Existing
<1> QED
  BY <1>1, AuditStep, Invariance, PTL DEF Spec

-----------------------------------------------------------------------------
(***************************************************************************)
(* The service implements the calendar of holds.                           *)
(***************************************************************************)

LEMMA HeldAfterCommit ==
  ASSUME IInv, NEW b, NEW row, NEW entries, Committed(b, row, entries)
  PROVE  /\ b \in BookingIds
         /\ Held' = [ Held EXCEPT ![b] = IF Blocking(row) THEN Hold(row) ELSE NoBooking ]
<1>1. /\ bookings'[b] = [ row EXCEPT !.xmin = csn + 1 ] /\ row \in Rows /\ b \in BookingIds
      /\ \A c \in BookingIds \ {b} : bookings'[c] = bookings[c]
      /\ Existing' = Existing \cup {b}
  BY CommittedRow DEF IInv, Committed
<1>2. Hold(bookings'[b]) = Hold(row) /\ (Blocking(bookings'[b]) <=> Blocking(row))
  BY <1>1 DEF Hold, Blocking, Rows
<1>3. \A c \in BookingIds :
        (IF c \in Existing' /\ Blocking(bookings'[c]) THEN Hold(bookings'[c]) ELSE NoBooking)
          = (IF c = b THEN IF Blocking(row) THEN Hold(row) ELSE NoBooking
             ELSE IF c \in Existing /\ Blocking(bookings[c]) THEN Hold(bookings[c]) ELSE NoBooking)
  BY <1>1, <1>2
<1> QED
  BY <1>1, <1>3 DEF Held

LEMMA CalendarStep == IInv /\ [Next]_vars => [Calendar!Next]_Held
<1> SUFFICES ASSUME IInv, [Next]_vars PROVE [Calendar!Next]_Held
  OBVIOUS
<1>1. CASE UNCHANGED tables
  BY <1>1 DEF tables, Held, Existing
<1>2. ASSUME NEW b, NEW row, NEW entries, Committed(b, row, entries)
      PROVE  Calendar!Next
  <2>1. /\ b \in BookingIds
        /\ Held' = [ Held EXCEPT ![b] = IF Blocking(row) THEN Hold(row) ELSE NoBooking ]
    BY <1>2, HeldAfterCommit
  <2>2. row \in Rows /\ row.from < row.to
    BY <1>2 DEF Committed, ChecksHold, Rows
  <2>3. CASE ~ Blocking(row)
    <3>1. Calendar!GiveBack(b)
      BY <2>1, <2>3 DEF Calendar!GiveBack
    <3> QED
      BY <2>1, <3>1 DEF Calendar!Next
  <2>4. CASE Blocking(row)
    <3>1. Hold(row) \in Calendar!Holds
      BY <2>2 DEF Hold, Calendar!Holds, Rows
    <3>2. ASSUME NEW c \in BookingIds \ {b}, Held[c] # NoBooking
          PROVE  ~ Calendar!Clash(Hold(row), Held[c])
      <4>1. c \in Existing \ {b} /\ Blocking(bookings[c]) /\ Held[c] = Hold(bookings[c])
        BY <3>2 DEF Held
      <4>2. bookings[c] \in RowsBut(b) /\ bookings[c] \in Rows
        BY <4>1 DEF RowsBut, IInv, TypeOK, Existing
      <4>3. Conflicts(row.vehicle, row.driver, row, RowsBut(b)) = {}
        BY <1>2, <2>4 DEF Committed, ExclusionHolds
      <4>4. ~ (/\ HasHalfOpenOverlap(row.from, row.to, bookings[c].from, bookings[c].to)
               /\ bookings[c].vehicle = row.vehicle \/ bookings[c].driver = row.driver)
        BY <4>1, <4>2, <4>3 DEF Conflicts, OverlappingRows
      <4> QED
        BY <2>2, <4>1, <4>2, <4>4 DEF Calendar!Clash, Hold, HasHalfOpenOverlap, Rows
    <3>3. Held' = [ Held EXCEPT ![b] = Hold(row) ]
      BY <2>1, <2>4
    <3>4. Held'[b] = Hold(row)
      BY <2>1, <3>3 DEF Held
    <3>5. Calendar!Place(b, Held'[b])
      BY <3>2, <3>3, <3>4 DEF Calendar!Place
    <3>6. Held'[b].from < Held'[b].to
      BY <2>2, <3>4 DEF Hold
    <3> QED
      BY <2>1, <3>1, <3>4, <3>5, <3>6 DEF Calendar!Next
  <2> QED
    BY <2>3, <2>4
<1> QED
  BY <1>1, <1>2, StepForm DEF IInv, BookingInv, vars

\* Seen as a calendar of holds, the service only places, moves and gives back
\* holds that never clash.
THEOREM ServiceIsCalendar == Spec => ImplementsCalendar
<1>1. Init => Calendar!Init
  BY DEF Init, Held, Existing, Calendar!Init
<1> QED
  BY <1>1, CalendarStep, Invariance, PTL DEF Spec, ImplementsCalendar, Calendar!Spec

=============================================================================
