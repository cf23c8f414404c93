------------------------- MODULE BookingRulesProofs -------------------------
(***************************************************************************)
(* The rules of docs/business-rules.md for bookings, as theorems about     *)
(* Bookings with any number of requests at once.  An override is always an *)
(* Admin's; the other rules give way only in a step that writes a booking  *)
(* whose column at stake changed after the request read it, and each       *)
(* theorem says which column that is.                                      *)
(***************************************************************************)
EXTENDS BookingsProofs, FiniteSetTheorems, SequenceTheorems

-----------------------------------------------------------------------------
(***************************************************************************)
(* What a handler knows between its awaits.                                *)
(***************************************************************************)

\* An override that passed the checks of writeOvernightStay is an Admin's.
Entitled(state) == state.stage = "writing" /\ state.override => state.role = "ADMIN"

\* A status request goes on only with a move allowed from the status it read.
Informed(state) ==
  /\ state.stage = "changing" =>
       TransitionAllowed(state.existing.status, state.to, state.role)
  /\ state.stage = "cancelling" =>
       TransitionAllowed(state.existing.status, "CANCELLED", state.role)

\* An update keeps what the booking has in a column and had read something else.
KeepsTripType(state) ==
  /\ state.existing # NoBooking /\ state.row.tripType = bookings[state.booking].tripType
  /\ state.existing.tripType # state.row.tripType

KeepsVehicle(state) ==
  /\ state.existing # NoBooking /\ state.row.vehicle = bookings[state.booking].vehicle
  /\ state.existing.vehicle # state.row.vehicle

KeepsDriver(state) ==
  /\ state.existing # NoBooking /\ state.row.driver = bookings[state.booking].driver
  /\ state.existing.driver # state.row.driver

\* What a create or update is about to write obeys the rules but for what it keeps.
Obedient(state) ==
  /\ state.existing # NoBooking => state.row.status = bookings[state.booking].status
  /\ state.stayAnswer = "200" =>
       StaysFit(state.row.tripType, state.stays) \/ KeepsTripType(state)
  /\ VehicleAssignable(state.snapshot.vehicles[state.row.vehicle]) \/ KeepsVehicle(state)
  /\ DriverAssignable(state.snapshot.drivers[state.row.driver]) \/ KeepsDriver(state)

\* ... as long as PostgreSQL will let it write at all.
Prepared(state) ==
  state.stage = "writing" =>
    /\ state.snapshot.csn <= csn
    /\ state.existing = NoBooking <=> state.booking \notin Existing
    /\ RowChanged(state) \/ Obedient(state)

\* A booking that a transaction is about to insert is not another's.
ApartFrom(h, state) ==
  state.stage = "writing" =>
    \A g \in Handlers \ {h} :
      /\ handlers[g].stage = "writing"
      /\ state.existing = NoBooking \/ handlers[g].existing = NoBooking
      => handlers[g].booking # state.booking

-----------------------------------------------------------------------------

\* writeOvernightStay stores one stay for an overnight trip and none for a city trip.
LEMMA StaysFitAfterWrite ==
  ASSUME NEW tripType, NEW stay, NEW role, NEW rate, NEW s,
         StayAnswer(tripType, stay, role) = "200"
  PROVE  StaysFit(tripType, StaysAfterWrite(tripType, stay, rate, s))
<1>1. CASE tripType = "OVERNIGHT"
  <2>1. stay # Absent /\ tripType # "CITY"
    BY <1>1 DEF StayAnswer
  <2>2. PICK x : StaysAfterWrite(tripType, stay, rate, s) = {x}
    BY <2>1 DEF StaysAfterWrite
  <2> QED
    BY <2>1, <2>2, FS_Singleton DEF StaysFit
<1>2. CASE tripType # "OVERNIGHT"
  BY <1>2 DEF StaysFit, StaysAfterWrite
<1> QED
  BY <1>1, <1>2

LEMMA WritingFacts ==
  ASSUME NEW role, NEW b, NEW row, NEW stay \in StayRequests \cup {Absent},
         NEW tripType, NEW driver, NEW existing
  PROVE  LET state == Writing(role, b, row, stay, tripType, driver, existing) IN
         /\ state.stage = "writing" /\ state.role = role /\ state.booking = b
         /\ state.row = row /\ state.snapshot = Snapshot /\ state.existing = existing
         /\ state.override => role = "ADMIN"
         /\ state.stayAnswer = "200" => StaysFit(tripType, state.stays)
<1> DEFINE answer == StayAnswer(tripType, stay, role)
           stays == StaysAfterWrite(tripType, stay, drivers[driver].rate, settings)
           state == Writing(role, b, row, stay, tripType, driver, existing)
<1>1. /\ state.stage = "writing" /\ state.role = role /\ state.booking = b
      /\ state.row = row /\ state.snapshot = Snapshot /\ state.stayAnswer = answer
      /\ state.existing = existing
      /\ state.override = (answer = "200" /\ stay # Absent /\ WantsOverride(stay))
      /\ answer = "200" => state.stays = stays
  BY DEF Writing
<1>2. answer = "200" /\ stay # Absent /\ WantsOverride(stay) => role = "ADMIN"
  BY StayAnswerFacts
<1>3. answer = "200" => StaysFit(tripType, stays)
  BY StaysFitAfterWrite
<1> HIDE DEF state, answer, stays
<1>4. state.override => role = "ADMIN"
  BY <1>1, <1>2
<1>5. state.stayAnswer = "200" => StaysFit(tripType, state.stays)
  BY <1>1, <1>3
<1> QED
  BY <1>1, <1>4, <1>5 DEF state

LEMMA BookableAssignable ==
  ASSUME NEW vehicle, NEW driver, NEW customer, Bookable(customer, vehicle, driver)
  PROVE  /\ VehicleAssignable(Snapshot.vehicles[vehicle])
         /\ DriverAssignable(Snapshot.drivers[driver])
BY DEF Bookable, VehicleAssignable, DriverAssignable, Snapshot

\* What a handler holds after a step that writes no table.
Ready(h, state) == Entitled(state) /\ Informed(state) /\ Prepared(state) /\ ApartFrom(h, state)

LEMMA AnswerReady ==
  ASSUME NEW h \in Handlers, NEW answer, Answer(h, answer)
  PROVE  \E state : handlers' = [ handlers EXCEPT ![h] = state ] /\ Ready(h, state)
<1>1. Idle(answer).stage = "idle"
  BY DEF Idle
<1> QED
  BY <1>1 DEF Answer, Ready, Entitled, Informed, Prepared, ApartFrom

LEMMA CreateReady ==
  ASSUME TypeOK, NEW h \in Handlers, BeginCreate(h)
  PROVE  \E state : handlers' = [ handlers EXCEPT ![h] = state ] /\ Ready(h, state)
<1>1. PICK role \in Actors, in \in CreateInputs, b \in FreshIds :
        /\ Bookable(in.customer, in.vehicle, in.driver)
        /\ handlers' = [ handlers EXCEPT ![h] =
             Writing(role, b,
                     CreatedRow(in, ResolveWindow(in.tripType, in.startAt, in.endAt, settings)),
                     in.stay, in.tripType, in.driver, NoBooking) ]
  BY DEF BeginCreate
<1> DEFINE row == CreatedRow(in, ResolveWindow(in.tripType, in.startAt, in.endAt, settings))
           state == Writing(role, b, row, in.stay, in.tripType, in.driver, NoBooking)
<1>2. in.stay \in StayRequests \cup {Absent} /\ b \notin Existing
  BY BookingsAssumption DEF CreateBodies, FreshIds
<1>3. row.vehicle = in.vehicle /\ row.driver = in.driver /\ row.tripType = in.tripType
  BY DEF CreatedRow
<1> HIDE DEF row
<1>4. /\ VehicleAssignable(Snapshot.vehicles[row.vehicle])
      /\ DriverAssignable(Snapshot.drivers[row.driver])
  BY <1>1, <1>3, BookableAssignable
<1>5. handlers' = [ handlers EXCEPT ![h] = state ]
  BY <1>1 DEF row
<1>6. /\ state.stage = "writing" /\ state.role = role /\ state.booking = b
      /\ state.row = row /\ state.snapshot = Snapshot /\ state.existing = NoBooking
      /\ state.override => role = "ADMIN"
      /\ state.stayAnswer = "200" => StaysFit(in.tripType, state.stays)
  BY <1>2, WritingFacts
<1>7. Snapshot.csn = csn /\ csn \in Nat
  BY DEF Snapshot, TypeOK
<1>8. \A g \in Handlers : handlers[g].stage = "writing" => handlers[g].booking # b
  BY DEF FreshIds
<1> HIDE DEF state
<1>9. Entitled(state) /\ Informed(state) /\ ApartFrom(h, state)
  BY <1>6, <1>8 DEF Entitled, Informed, ApartFrom
<1>10. Obedient(state)
  BY <1>3, <1>4, <1>6 DEF Obedient
<1>11. Prepared(state)
  BY <1>2, <1>6, <1>7, <1>10 DEF Prepared
<1> QED
  BY <1>5, <1>9, <1>11 DEF Ready

LEMMA UpdateReady ==
  ASSUME TypeOK, HandlersOnExisting, NEW h \in Handlers, BeginUpdate(h),
         \A g \in Handlers : Prepared(handlers[g])
  PROVE  \E state : handlers' = [ handlers EXCEPT ![h] = state ] /\ Ready(h, state)
<1> DEFINE p == handlers[h]
           in == p.input
           now == bookings[p.booking]
           customer == Given(in.customer, p.existing.customer)
           vehicle == Given(in.vehicle, p.existing.vehicle)
           driver == Given(in.driver, p.existing.driver)
           tripType == Given(in.tripType, p.existing.tripType)
           window == ResolveWindow(tripType, StartOf(in, p.existing), EndOf(in, p.existing),
                                   settings)
           row == UpdatedRow(now, in, window, p.existing)
           state == Writing(p.role, p.booking, row, in.stay, tripType, driver, p.existing)
<1>1. p \in UpdatingHandlers /\ p.stage = "updating"
  BY DEF BeginUpdate, TypeOK, HandlerStates, IdleHandlers, UpdatingHandlers,
         ChangingHandlers, CancellingHandlers, WritingHandlers
<1>2. /\ in.stay \in StayRequests \cup {Absent} /\ p.booking \in BookingIds
      /\ p.existing # NoBooking
  BY <1>1, BookingsAssumption DEF UpdatingHandlers, UpdateBodies
<1>3. p.booking \in Existing /\ now \in Rows
  BY <1>1, <1>2 DEF HandlersOnExisting, Existing, TypeOK
<1>4. \/ Answer(h, "400") \/ Answer(h, "409")
      \/ /\ Bookable(customer, vehicle, driver)
         /\ handlers' = [ handlers EXCEPT ![h] = state ]
  BY DEF BeginUpdate
<1>5. /\ row.vehicle = Given(in.vehicle, now.vehicle)
      /\ row.driver = Given(in.driver, now.driver)
      /\ row.tripType = Given(in.tripType, now.tripType)
      /\ row.status = now.status
  <2> HIDE DEF window
  <2> QED
    BY <1>3 DEF UpdatedRow, Rows
<1>6. /\ row.vehicle = vehicle \/ (row.vehicle = now.vehicle /\ p.existing.vehicle # row.vehicle)
      /\ row.driver = driver \/ (row.driver = now.driver /\ p.existing.driver # row.driver)
      /\ \/ row.tripType = tripType
         \/ row.tripType = now.tripType /\ p.existing.tripType # row.tripType
  <2> HIDE DEF row
  <2> QED
    BY <1>5 DEF Given
<1>7. row.status = now.status
  BY <1>5
<1> HIDE DEF row, tripType, driver, vehicle, customer
<1>8. /\ state.stage = "writing" /\ state.role = p.role /\ state.booking = p.booking
      /\ state.row = row /\ state.snapshot = Snapshot /\ state.existing = p.existing
      /\ state.override => p.role = "ADMIN"
      /\ state.stayAnswer = "200" => StaysFit(tripType, state.stays)
  BY <1>2, WritingFacts
<1>9. Snapshot.csn = csn /\ csn \in Nat
  BY DEF Snapshot, TypeOK
<1> HIDE DEF state
<1>10. Entitled(state) /\ Informed(state)
  BY <1>8 DEF Entitled, Informed
<1>11. ApartFrom(h, state)
  BY <1>2, <1>3, <1>8 DEF ApartFrom, Prepared
<1>12. ASSUME Bookable(customer, vehicle, driver)
       PROVE  Prepared(state)
  <2>1. /\ VehicleAssignable(Snapshot.vehicles[vehicle])
        /\ DriverAssignable(Snapshot.drivers[driver])
    BY <1>12, BookableAssignable
  <2>2. row.vehicle = vehicle \/ KeepsVehicle(state)
    BY <1>2, <1>6, <1>8 DEF KeepsVehicle
  <2>3. row.driver = driver \/ KeepsDriver(state)
    BY <1>2, <1>6, <1>8 DEF KeepsDriver
  <2>4. row.tripType = tripType \/ KeepsTripType(state)
    BY <1>2, <1>6, <1>8 DEF KeepsTripType
  <2>5. Obedient(state)
    BY <1>7, <1>8, <2>1, <2>2, <2>3, <2>4 DEF Obedient
  <2> QED
    BY <1>2, <1>3, <1>8, <1>9, <2>5 DEF Prepared
<1> QED
  BY <1>4, <1>10, <1>11, <1>12, AnswerReady DEF Ready

LEMMA ReadReady ==
  ASSUME TypeOK, NEW h \in Handlers,
         ReadForUpdate(h) \/ ReadForStatus(h) \/ ReadForCancel(h)
  PROVE  \E state : handlers' = [ handlers EXCEPT ![h] = state ] /\ Ready(h, state)
<1> USE DEF Ready, Entitled, Informed, Prepared, ApartFrom
<1>1. CASE ReadForUpdate(h)
  <2>1. PICK role \in Actors, in \in UpdateInputs, b \in Existing :
          \/ Answer(h, "403") \/ Answer(h, "400")
          \/ handlers' = [ handlers EXCEPT ![h] =
               [ stage |-> "updating", role |-> role, booking |-> b,
                 existing |-> bookings[b], input |-> in ] ]
    BY <1>1 DEF ReadForUpdate
  <2> DEFINE state == [ stage |-> "updating", role |-> role, booking |-> b,
                        existing |-> bookings[b], input |-> in ]
  <2>2. Ready(h, state)
    OBVIOUS
  <2> HIDE DEF state, Ready
  <2> QED
    BY <2>1, <2>2, AnswerReady DEF state
<1>2. CASE ReadForStatus(h)
  <2>1. PICK role \in Actors, to \in StatusInputs, b \in Existing :
          \/ Answer(h, "400")
          \/ /\ TransitionAllowed(bookings[b].status, to, role)
             /\ handlers' = [ handlers EXCEPT ![h] =
                  [ stage |-> "changing", role |-> role, booking |-> b,
                    existing |-> bookings[b], to |-> to ] ]
    BY <1>2 DEF ReadForStatus
  <2> DEFINE state == [ stage |-> "changing", role |-> role, booking |-> b,
                        existing |-> bookings[b], to |-> to ]
  <2>2. TransitionAllowed(bookings[b].status, to, role) => Ready(h, state)
    OBVIOUS
  <2> HIDE DEF state, Ready
  <2> QED
    BY <2>1, <2>2, AnswerReady DEF state
<1>3. CASE ReadForCancel(h)
  <2>1. PICK role \in Actors, reason \in CancelInputs, b \in Existing :
          \/ Answer(h, "400")
          \/ /\ TransitionAllowed(bookings[b].status, "CANCELLED", role)
             /\ handlers' = [ handlers EXCEPT ![h] =
                  [ stage |-> "cancelling", role |-> role, booking |-> b,
                    existing |-> bookings[b], reason |-> reason ] ]
    BY <1>3 DEF ReadForCancel
  <2> DEFINE state == [ stage |-> "cancelling", role |-> role, booking |-> b,
                        existing |-> bookings[b], reason |-> reason ]
  <2>2. TransitionAllowed(bookings[b].status, "CANCELLED", role) => Ready(h, state)
    OBVIOUS
  <2> HIDE DEF state, Ready
  <2> QED
    BY <2>1, <2>2, AnswerReady DEF state
<1> QED
  BY <1>1, <1>2, <1>3

\* The steps that end a request.
LEMMA EndAnswers ==
  ASSUME TypeOK, HandlersOnExisting, NEW h \in Handlers,
         \/ CommitWrite(h) \/ UpdateStatus(h) \/ CancelBooking(h)
         \/ RefuseCreate(h) \/ GetBooking(h) \/ RefuseWrite(h)
         \/ SerializationFailure(h) \/ Abort(h)
  PROVE  \E answer : Answer(h, answer)
<1>1. CASE CommitWrite(h)
  BY <1>1 DEF CommitWrite
<1>2. CASE UpdateStatus(h) \/ CancelBooking(h)
  BY <1>2, StatusRowWritten DEF WriteStatus
<1>3. CASE \/ RefuseCreate(h) \/ GetBooking(h) \/ RefuseWrite(h)
           \/ SerializationFailure(h) \/ Abort(h)
  BY <1>3, AnswerOnlyType
<1> QED
  BY <1>1, <1>2, <1>3

LEMMA ReadsAndBegins ==
  ASSUME NEW h \in Handlers,
         \/ ReadForUpdate(h) \/ ReadForStatus(h) \/ ReadForCancel(h)
         \/ BeginCreate(h) \/ BeginUpdate(h)
  PROVE  UNCHANGED tables
BY DEF ReadForUpdate, ReadForStatus, ReadForCancel, BeginCreate, BeginUpdate

-----------------------------------------------------------------------------
(***************************************************************************)
(* What every handler knows, whatever the others commit.                   *)
(***************************************************************************)

AllReady == \A h \in Handlers : Ready(h, handlers[h])

\* The row, the stays and the others' after a commit.
LEMMA AfterCommit ==
  ASSUME TypeOK, NEW b \in BookingIds, NEW row \in Rows, NEW stays, NEW entries,
         Commit(b, row, stays, entries)
  PROVE  /\ bookings'[b].status = row.status /\ bookings'[b].tripType = row.tripType
         /\ bookings'[b].vehicle = row.vehicle /\ bookings'[b].driver = row.driver
         /\ bookings'[b].xmin = csn + 1 /\ bookings'[b] # NoBooking
         /\ overnightStays'[b] = stays
         /\ \A c \in BookingIds \ {b} :
              bookings'[c] = bookings[c] /\ overnightStays'[c] = overnightStays[c]
         /\ Existing' = Existing \cup {b}
         /\ csn \in Nat /\ csn' = csn + 1
<1>1. csn \in Nat /\ csn' = csn + 1
  BY DEF Commit, TypeOK
<1>2. bookings'[b] = [ row EXCEPT !.xmin = csn + 1 ] /\ overnightStays'[b] = stays
  BY DEF Commit, TypeOK
<1>3. \A c \in BookingIds \ {b} :
        bookings'[c] = bookings[c] /\ overnightStays'[c] = overnightStays[c]
  BY DEF Commit, TypeOK
<1>4. /\ bookings'[b].status = row.status /\ bookings'[b].tripType = row.tripType
      /\ bookings'[b].vehicle = row.vehicle /\ bookings'[b].driver = row.driver
      /\ bookings'[b].xmin = csn + 1
  BY <1>2 DEF Rows
<1>5. [ row EXCEPT !.xmin = csn + 1 ] \in Rows
  BY <1>1 DEF Rows
<1>6. bookings'[b] # NoBooking
  BY <1>2, <1>5, BookingsAssumption
<1>7. Existing' = Existing \cup {b}
  BY <1>3, <1>6 DEF Existing
<1> QED
  BY <1>1, <1>2, <1>3, <1>4, <1>6, <1>7

\* Handler h commits: the transaction of a create or update that PostgreSQL lets
\* write, or a status change from the status it read.
Wrote(h, row, stays, entries) ==
  LET p == handlers[h] IN
  /\ p.booking \in BookingIds /\ p.stage # "idle"
  /\ \E answer : Answer(h, answer)
  /\ Commit(p.booking, row, stays, entries)
  /\ \/ /\ p.stage = "writing" /\ p \in WritingHandlers /\ ~ RowChanged(p)
        /\ row = p.row /\ stays = p.stays /\ p.stayAnswer = "200"
        /\ entries = WriteEntries(p)
     \/ /\ p.stage \in {"changing", "cancelling"} /\ p.booking \in Existing
        /\ stays = overnightStays[p.booking]
        /\ row.tripType = bookings[p.booking].tripType
        /\ TransitionAllowed(p.existing.status, row.status, p.role)
        /\ \E entry \in AuditEntries :
             entries = << entry >> /\ entry.old = p.existing.status

LEMMA StatusWrites ==
  ASSUME TypeOK, HandlersOnExisting, NEW h \in Handlers, Informed(handlers[h]),
         UpdateStatus(h) \/ CancelBooking(h)
  PROVE  \/ UNCHANGED tables
         \/ \E row \in Rows : \E stays, entries : Wrote(h, row, stays, entries)
<1> DEFINE p == handlers[h]
           now == bookings[p.booking]
           stays == overnightStays[p.booking]
<1>1. p \in ChangingHandlers \/ p \in CancellingHandlers
  BY DEF UpdateStatus, CancelBooking, TypeOK, HandlerStates, IdleHandlers, UpdatingHandlers,
         ChangingHandlers, CancellingHandlers, WritingHandlers
<1>2. /\ p.stage \in {"changing", "cancelling"} /\ p.booking \in BookingIds
      /\ p.existing \in Rows /\ p.role \in Roles
  BY <1>1 DEF ChangingHandlers, CancellingHandlers
<1>3. p.booking \in Existing /\ now \in Rows
  BY <1>2 DEF HandlersOnExisting, Existing, TypeOK
<1>4. ASSUME NEW row \in Rows, NEW action \in {"BOOKING_STATUS_CHANGED", "BOOKING_CANCELLED"},
             WriteStatus(h, row, action), row.tripType = now.tripType,
             TransitionAllowed(p.existing.status, row.status, p.role)
      PROVE  UNCHANGED tables \/ \E stored, entries : Wrote(h, row, stored, entries)
  <2> DEFINE entry == Entry(action, p.role, p.existing.status, row.status)
             entries == << entry >>
  <2>1. CASE UNCHANGED tables
    BY <2>1
  <2>2. CASE Commit(p.booking, row, stays, entries) /\ Answer(h, "200")
    <3>1. entry \in AuditEntries /\ entry.old = p.existing.status
      BY <1>2 DEF Entry, AuditEntries, Rows
    <3> HIDE DEF entry
    <3>2. Wrote(h, row, stays, entries)
      BY <1>2, <1>3, <1>4, <2>2, <3>1 DEF Wrote
    <3> QED
      BY <3>2
  <2> QED
    BY <1>4, <2>1, <2>2 DEF WriteStatus
<1>5. CASE UpdateStatus(h)
  <2> DEFINE row == [ now EXCEPT !.status = p.to,
                                 !.cancelledAt = CancelledAtAfter(p.to, p.existing) ]
  <2>1. p.stage = "changing" /\ WriteStatus(h, row, "BOOKING_STATUS_CHANGED")
    BY <1>5 DEF UpdateStatus
  <2>2. p.to \in BookingStatuses
    BY <1>1, <2>1 DEF ChangingHandlers, CancellingHandlers
  <2>3. CancelledAtAfter(p.to, p.existing) \in BOOLEAN
    BY <1>2 DEF CancelledAtAfter, Rows
  <2>4. row \in Rows /\ row.tripType = now.tripType /\ row.status = p.to
    BY <1>3, <2>2, <2>3 DEF Rows
  <2>5. TransitionAllowed(p.existing.status, p.to, p.role)
    BY <2>1 DEF Informed
  <2> HIDE DEF row
  <2> QED
    BY <1>4, <2>1, <2>4, <2>5
<1>6. CASE CancelBooking(h)
  <2> DEFINE notes == NotesAfterCancel(p.existing, p.reason)
             row == [ now EXCEPT !.status = "CANCELLED", !.cancelledAt = TRUE, !.notes = notes ]
  <2>1. p.stage = "cancelling" /\ WriteStatus(h, row, "BOOKING_CANCELLED")
    BY <1>6 DEF CancelBooking
  <2>2. p.reason \in Remarks \cup {Absent}
    BY <1>1, <2>1 DEF ChangingHandlers, CancellingHandlers
  <2>3. notes \in SUBSET Remarks
    BY <1>2, <2>2 DEF NotesAfterCancel, Rows
  <2>4. row \in Rows /\ row.tripType = now.tripType /\ row.status = "CANCELLED"
    BY <1>3, <2>3 DEF Rows, BookingStatuses
  <2>5. TransitionAllowed(p.existing.status, "CANCELLED", p.role)
    BY <2>1 DEF Informed
  <2> HIDE DEF row
  <2> QED
    BY <1>4, <2>1, <2>4, <2>5
<1> QED
  BY <1>5, <1>6

\* A step on the tables is some handler's commit.
LEMMA StepWrites ==
  ASSUME TypeOK, HandlersOnExisting, AllReady, [Next]_vars
  PROVE  \/ UNCHANGED tables
         \/ \E h \in Handlers, row \in Rows : \E stays, entries : Wrote(h, row, stays, entries)
<1>1. CASE UNCHANGED vars
  BY <1>1 DEF vars
<1>2. CASE FleetStep
  BY <1>2, FleetType
<1>3. ASSUME NEW h \in Handlers, CommitWrite(h)
      PROVE  \E row \in Rows : \E stays, entries : Wrote(h, row, stays, entries)
  <2>1. handlers[h] \in WritingHandlers
    BY <1>3, WritingHandler DEF CommitWrite
  <2>2. /\ handlers[h].stage = "writing" /\ handlers[h].booking \in BookingIds
        /\ handlers[h].row \in Rows
    BY <2>1 DEF WritingHandlers
  <2>3. Wrote(h, handlers[h].row, handlers[h].stays, WriteEntries(handlers[h]))
    BY <1>3, <2>1, <2>2 DEF CommitWrite, Wrote
  <2> QED
    BY <2>2, <2>3
<1>4. ASSUME NEW h \in Handlers, UpdateStatus(h) \/ CancelBooking(h)
      PROVE  \/ UNCHANGED tables
             \/ \E row \in Rows : \E stays, entries : Wrote(h, row, stays, entries)
  BY <1>4, StatusWrites DEF AllReady, Ready
<1>5. ASSUME NEW h \in Handlers,
             \/ RefuseCreate(h) \/ GetBooking(h) \/ RefuseWrite(h)
             \/ SerializationFailure(h) \/ Abort(h)
      PROVE  UNCHANGED tables
  BY <1>5, AnswerOnlyType
<1> QED
  BY <1>1, <1>2, <1>3, <1>4, <1>5, ReadsAndBegins DEF Next, HandlerStep

LEMMA ReadyIfEachIs ==
  ASSUME \A g \in Handlers : \A held : handlers'[g] = held => Ready(g, held)'
  PROVE  AllReady'
BY DEF AllReady, Ready, Entitled, Informed, Prepared, ApartFrom, RowChanged, Obedient,
       KeepsTripType, KeepsVehicle, KeepsDriver

\* A step that writes no table leaves what every other handler holds as good as it was.
LEMMA ReadyKept ==
  ASSUME TypeOK, AllReady, NEW h \in Handlers, NEW state, Ready(h, state),
         handlers' = [ handlers EXCEPT ![h] = state ], UNCHANGED tables
  PROVE  AllReady'
<1>1. handlers'[h] = state /\ \A g \in Handlers \ {h} : handlers'[g] = handlers[g]
  BY DEF TypeOK
<1>2. bookings' = bookings /\ csn' = csn /\ Existing' = Existing
  BY DEF tables, Existing
<1>3. ASSUME NEW g \in Handlers, NEW held, Prepared(held) PROVE Prepared(held)'
  BY <1>2, <1>3 DEF Prepared, RowChanged, Obedient, KeepsTripType, KeepsVehicle, KeepsDriver
<1>4. ASSUME NEW g \in Handlers, NEW held, handlers'[g] = held PROVE ApartFrom(g, held)'
  <2>1. CASE g = h
    BY <1>1, <1>4, <2>1 DEF ApartFrom, Ready
  <2>2. CASE g # h
    <3>1. \A k \in Handlers \ {g, h} : handlers'[k] = handlers[k]
      BY <1>1
    <3>2. ApartFrom(g, handlers[g]) /\ ApartFrom(h, state)
      BY DEF AllReady, Ready
    <3> QED
      BY <1>1, <1>4, <2>2, <3>1, <3>2 DEF ApartFrom
  <2> QED
    BY <2>1, <2>2
<1>5. ASSUME NEW g \in Handlers, NEW held, handlers'[g] = held
      PROVE  Ready(g, held)'
  <2>1. CASE g = h
    <3>1. Prepared(held)'
      BY <1>1, <1>3, <1>5, <2>1 DEF Ready
    <3> QED
      BY <1>1, <1>4, <1>5, <2>1, <3>1 DEF Ready, Entitled, Informed
  <2>2. CASE g # h
    <3>1. handlers[g] = held /\ Ready(g, handlers[g])
      BY <1>1, <1>5, <2>2 DEF AllReady
    <3>2. Prepared(held)'
      BY <1>3, <3>1 DEF Ready
    <3> QED
      BY <1>4, <1>5, <3>1, <3>2 DEF Ready, Entitled, Informed
  <2> QED
    BY <2>1, <2>2
<1> QED
  BY <1>5, ReadyIfEachIs

\* A commit makes every other transaction on its booking unable to write.
LEMMA ReadyCommitted ==
  ASSUME TypeOK, AllReady, NEW h \in Handlers, NEW row \in Rows, NEW stays, NEW entries,
         Wrote(h, row, stays, entries)
  PROVE  AllReady'
<1> DEFINE b == handlers[h].booking
<1>1. PICK answer : handlers' = [ handlers EXCEPT ![h] = Idle(answer) ]
  BY DEF Wrote, Answer
<1>2. handlers'[h].stage = "idle" /\ \A g \in Handlers \ {h} : handlers'[g] = handlers[g]
  BY <1>1 DEF TypeOK, Idle
<1>3. b \in BookingIds /\ Commit(b, row, stays, entries)
  BY DEF Wrote
<1>4. /\ bookings'[b].xmin = csn + 1 /\ csn \in Nat /\ csn' = csn + 1
      /\ \A c \in BookingIds \ {b} : bookings'[c] = bookings[c]
      /\ Existing' = Existing \cup {b}
  BY <1>3, AfterCommit
<1>5. ASSUME NEW g \in Handlers, NEW p, handlers'[g] = p PROVE Ready(g, p)'
  <2>1. CASE g = h
    BY <1>2, <1>5, <2>1 DEF Ready, Entitled, Informed, Prepared, ApartFrom
  <2>2. CASE g # h
    <3>1. handlers[g] = p /\ handlers'[g] = p /\ Ready(g, p)
      BY <1>2, <1>5, <2>2 DEF AllReady
    <3>2. ApartFrom(g, p)'
      BY <1>2, <3>1 DEF ApartFrom, Ready
    <3>3. ASSUME p.stage = "writing" PROVE Prepared(p)'
      <4>1. p \in WritingHandlers
        BY <3>1, <3>3, WritingHandler
      <4>2. p.booking \in BookingIds /\ p.snapshot.csn \in Nat
        BY <4>1 DEF WritingHandlers, Snapshots
      <4>3. /\ p.snapshot.csn <= csn
            /\ p.existing = NoBooking <=> p.booking \notin Existing
            /\ RowChanged(p) \/ Obedient(p)
        BY <3>1, <3>3 DEF Ready, Prepared
      <4>4. p.snapshot.csn <= csn'
        BY <1>4, <4>2, <4>3
      <4>5. p.existing = NoBooking => p.booking # b
        <5>1. CASE handlers[h].stage = "writing"
          <6>1. ApartFrom(g, p)
            BY <3>1 DEF Ready
          <6> QED
            BY <2>2, <3>3, <5>1, <6>1 DEF ApartFrom
        <5>2. CASE handlers[h].stage # "writing"
          BY <4>3, <5>2 DEF Wrote
        <5> QED
          BY <5>1, <5>2
      <4>6. p.existing = NoBooking <=> p.booking \notin Existing'
        BY <1>4, <4>3, <4>5
      <4>7. CASE p.booking = b
        <5>1. RowChanged(p)'
          BY <1>4, <4>2, <4>3, <4>5, <4>7 DEF RowChanged
        <5> QED
          BY <4>4, <4>6, <5>1 DEF Prepared
      <4>8. CASE p.booking # b
        <5>1. bookings'[p.booking] = bookings[p.booking]
          BY <1>4, <4>2, <4>8
        <5>2. RowChanged(p)' \/ Obedient(p)'
          BY <4>3, <5>1
             DEF RowChanged, Obedient, KeepsTripType, KeepsVehicle, KeepsDriver
        <5> QED
          BY <4>4, <4>6, <5>2 DEF Prepared
      <4> QED
        BY <4>7, <4>8
    <3>4. Prepared(p)'
      BY <3>3 DEF Prepared
    <3> QED
      BY <3>1, <3>2, <3>4 DEF Ready, Entitled, Informed
  <2> QED
    BY <2>1, <2>2
<1> QED
  BY <1>5, ReadyIfEachIs

LEMMA ReadyStep == IInv /\ AllReady /\ [Next]_vars => AllReady'
<1> SUFFICES ASSUME IInv, AllReady, [Next]_vars PROVE AllReady'
  OBVIOUS
<1>0. TypeOK /\ HandlersOnExisting
  BY DEF IInv, BookingInv
<1>1. CASE UNCHANGED << tables, handlers >>
  BY <1>1 DEF tables, AllReady, Ready, Entitled, Informed, Prepared, ApartFrom, RowChanged,
              Obedient, KeepsTripType, KeepsVehicle, KeepsDriver, Existing
<1>2. CASE \E h \in Handlers, row \in Rows : \E stays, entries : Wrote(h, row, stays, entries)
  BY <1>0, <1>2, ReadyCommitted
<1>3. ASSUME NEW h \in Handlers, HandlerStep(h), UNCHANGED tables PROVE AllReady'
  <2>1. \A g \in Handlers : Prepared(handlers[g])
    BY DEF AllReady, Ready
  <2>2. \E state : handlers' = [ handlers EXCEPT ![h] = state ] /\ Ready(h, state)
    BY <1>0, <1>3, <2>1, CreateReady, UpdateReady, ReadReady, EndAnswers, AnswerReady
       DEF HandlerStep
  <2> QED
    BY <1>0, <1>3, <2>2, ReadyKept
<1>4. CASE FleetStep
  BY <1>0, <1>1, <1>4, FleetType
<1> QED
  BY <1>0, <1>1, <1>2, <1>3, <1>4, StepWrites DEF Next, vars

LEMMA Readiness == Spec => []AllReady
<1>1. Init => AllReady
  BY DEF Init, AllReady, Ready, Entitled, Informed, Prepared, ApartFrom, Idle
<1> QED
  BY <1>1, ReadyStep, Invariance, PTL DEF Spec

-----------------------------------------------------------------------------
(***************************************************************************)
(* Overrides.                                                              *)
(***************************************************************************)

AdminOverrides(entries) ==
  \A i \in DOMAIN entries :
    entries[i].action = "OVERNIGHT_COST_OVERRIDDEN" => entries[i].role = "ADMIN"

LEMMA OverridesAppended ==
  ASSUME NEW s \in Seq(AuditEntries), NEW t \in Seq(AuditEntries),
         AdminOverrides(s), AdminOverrides(t)
  PROVE  AdminOverrides(s \o t)
<1> SUFFICES ASSUME NEW i \in DOMAIN (s \o t), (s \o t)[i].action = "OVERNIGHT_COST_OVERRIDDEN"
             PROVE  (s \o t)[i].role = "ADMIN"
  BY DEF AdminOverrides
<1>1. CASE i <= Len(s)
  <2>1. i \in DOMAIN s /\ (s \o t)[i] = s[i]
    BY <1>1
  <2> QED
    BY <2>1 DEF AdminOverrides
<1>2. CASE i > Len(s)
  <2>1. i - Len(s) \in DOMAIN t /\ (s \o t)[i] = t[i - Len(s)]
    BY <1>2
  <2> QED
    BY <2>1 DEF AdminOverrides
<1> QED
  BY <1>1, <1>2

LEMMA OverridesCommitted ==
  ASSUME TypeOK, OverridesByAdmin, NEW b \in BookingIds, NEW row, NEW stays,
         NEW entries \in Seq(AuditEntries), AdminOverrides(entries),
         Commit(b, row, stays, entries)
  PROVE  OverridesByAdmin'
<1>1. /\ auditLog'[b] = auditLog[b] \o entries
      /\ \A c \in BookingIds \ {b} : auditLog'[c] = auditLog[c]
  BY DEF Commit, TypeOK
<1>2. auditLog[b] \in Seq(AuditEntries)
  BY DEF TypeOK
<1>3. AdminOverrides(auditLog[b])
  BY DEF OverridesByAdmin, AdminOverrides
<1>4. AdminOverrides(auditLog'[b])
  BY <1>1, <1>2, <1>3, OverridesAppended
<1>5. \A c \in BookingIds : AdminOverrides(auditLog'[c])
  BY <1>1, <1>4 DEF OverridesByAdmin, AdminOverrides
<1> QED
  BY <1>5 DEF OverridesByAdmin, AdminOverrides

LEMMA OverridesStep == IInv /\ AllReady /\ OverridesByAdmin /\ [Next]_vars => OverridesByAdmin'
<1> SUFFICES ASSUME IInv, AllReady, OverridesByAdmin, [Next]_vars PROVE OverridesByAdmin'
  OBVIOUS
<1>0. TypeOK /\ HandlersOnExisting
  BY DEF IInv, BookingInv
<1>1. CASE UNCHANGED tables
  BY <1>1 DEF tables, OverridesByAdmin
<1>2. ASSUME NEW h \in Handlers, CommitWrite(h) PROVE OverridesByAdmin'
  <2> DEFINE p == handlers[h]
             first == IF p.override
                      THEN << Entry("OVERNIGHT_COST_OVERRIDDEN", p.role, Absent, Absent) >>
                      ELSE << >>
             last == Entry(IF p.existing = NoBooking THEN "BOOKING_CREATED" ELSE "BOOKING_UPDATED",
                           p.role, OldStatus(p.existing), p.row.status)
  <2>1. p \in WritingHandlers /\ (p.override => p.role = "ADMIN")
    BY <1>0, <1>2, WritingHandler DEF CommitWrite, AllReady, Ready, Entitled
  <2>2. /\ Entry("OVERNIGHT_COST_OVERRIDDEN", p.role, Absent, Absent) \in AuditEntries
        /\ last \in AuditEntries /\ last.action # "OVERNIGHT_COST_OVERRIDDEN"
    BY <2>1, OldStatusType DEF Entry, AuditEntries, WritingHandlers, Rows
  <2>3. first \in Seq(AuditEntries) /\ AdminOverrides(first)
    <3>1. CASE p.override
      <4>1. first = << Entry("OVERNIGHT_COST_OVERRIDDEN", p.role, Absent, Absent) >>
        BY <3>1
      <4>2. Entry("OVERNIGHT_COST_OVERRIDDEN", p.role, Absent, Absent).role = "ADMIN"
        BY <2>1, <3>1 DEF Entry
      <4> QED
        BY <2>2, <4>1, <4>2 DEF AdminOverrides
    <3>2. CASE ~ p.override
      BY <3>2 DEF AdminOverrides
    <3> QED
      BY <3>1, <3>2
  <2> HIDE DEF last
  <2> DEFINE single == << last >>
  <2>4. single \in Seq(AuditEntries) /\ AdminOverrides(single)
    BY <2>2 DEF AdminOverrides
  <2>5. WriteEntries(p) = first \o single
    BY DEF WriteEntries, last
  <2> HIDE DEF first, single
  <2>6. first \o single \in Seq(AuditEntries) /\ AdminOverrides(first \o single)
    BY <2>3, <2>4, OverridesAppended
  <2>7. p.booking \in BookingIds /\ Commit(p.booking, p.row, p.stays, WriteEntries(p))
    BY <1>2, <2>1 DEF CommitWrite, WritingHandlers
  <2> QED
    BY <1>0, <2>5, <2>6, <2>7, OverridesCommitted
<1>3. ASSUME NEW h \in Handlers, UpdateStatus(h) \/ CancelBooking(h) PROVE OverridesByAdmin'
  <2>1. PICK row \in Rows, action \in {"BOOKING_STATUS_CHANGED", "BOOKING_CANCELLED"} :
          StatusRow(h, row) /\ WriteStatus(h, row, action)
    BY <1>0, <1>3, StatusRowWritten
  <2> DEFINE p == handlers[h]
             entry == Entry(action, p.role, p.existing.status, row.status)
  <2>2. entry \in AuditEntries /\ entry.action # "OVERNIGHT_COST_OVERRIDDEN"
    BY <2>1 DEF StatusRow, Entry, AuditEntries, Rows
  <2>3. \/ UNCHANGED tables
        \/ Commit(p.booking, row, overnightStays[p.booking], << entry >>)
    BY <2>1 DEF WriteStatus
  <2> HIDE DEF entry
  <2>4. << entry >> \in Seq(AuditEntries) /\ AdminOverrides(<< entry >>)
    BY <2>2 DEF AdminOverrides
  <2>5. p.booking \in BookingIds
    BY <2>1 DEF StatusRow, Existing
  <2> QED
    BY <1>0, <1>1, <2>3, <2>4, <2>5, OverridesCommitted
<1>4. ASSUME NEW h \in Handlers,
             \/ RefuseCreate(h) \/ GetBooking(h) \/ RefuseWrite(h)
             \/ SerializationFailure(h) \/ Abort(h)
      PROVE  UNCHANGED tables
  BY <1>0, <1>4, AnswerOnlyType
<1>5. CASE FleetStep
  BY <1>0, <1>1, <1>5, FleetType
<1> QED
  BY <1>1, <1>2, <1>3, <1>4, <1>5, ReadsAndBegins DEF Next, HandlerStep, vars

\* A cost override in the audit log was made by an Admin, whatever requests run
\* at once: the role is checked in the transaction that writes the entry.
THEOREM OverridesByAdminAlways == Spec => []OverridesByAdmin
<1>1. Init => OverridesByAdmin
  BY DEF Init, OverridesByAdmin
<1> QED
  BY <1>1, OverridesStep, Readiness, Invariance, PTL DEF Spec

-----------------------------------------------------------------------------
(***************************************************************************)
(* What a commit does to a booking, for the rules.                         *)
(***************************************************************************)

\* The commit, its booking and the handler that made it, as the properties see them.
LEMMA WroteFacts ==
  ASSUME TypeOK, NEW h \in Handlers, NEW row \in Rows, NEW stays, NEW entries,
         Wrote(h, row, stays, entries)
  PROVE  /\ CommittedBy(h) /\ \A g \in Handlers : CommittedBy(g) => g = h
         /\ handlers[h].stage = "writing" => CommitsWrite(h, handlers[h].booking)
         /\ handlers[h].stage # "writing" => CommitsStatus(h, handlers[h].booking)
<1>1. PICK answer : handlers' = [ handlers EXCEPT ![h] = Idle(answer) ]
  BY DEF Wrote, Answer
<1>2. handlers'[h].stage = "idle" /\ \A g \in Handlers \ {h} : handlers'[g] = handlers[g]
  BY <1>1 DEF TypeOK, Idle
<1>3. csn' # csn
  BY DEF Wrote, Commit, TypeOK
<1>4. CommittedBy(h) /\ \A g \in Handlers : CommittedBy(g) => g = h
  BY <1>2, <1>3 DEF CommittedBy, Wrote
<1> QED
  BY <1>4 DEF CommitsWrite, CommitsStatus, Wrote

\* What PostgreSQL lets a create or update write obeys the rules.
LEMMA WroteObedient ==
  ASSUME AllReady, NEW h \in Handlers, NEW row, NEW stays, NEW entries,
         Wrote(h, row, stays, entries), handlers[h].stage = "writing"
  PROVE  /\ Obedient(handlers[h])
         /\ handlers[h].existing = NoBooking <=> handlers[h].booking \notin Existing
BY DEF Wrote, AllReady, Ready, Prepared

LEMMA StayStep ==
  ASSUME TypeOK, AllReady, NEW h \in Handlers, NEW row \in Rows, NEW stays, NEW entries,
         Wrote(h, row, stays, entries), NEW b \in Existing'
  PROVE  \/ Fitting(b)'
         \/ /\ b \in Existing /\ ~ Fitting(b)
            /\ bookings'[b].tripType = bookings[b].tripType
            /\ overnightStays'[b] = overnightStays[b]
         \/ \E g \in Handlers : WroteForOtherTrip(g, b)
<1> DEFINE p == handlers[h]
<1>1. p.booking \in BookingIds /\ Commit(p.booking, row, stays, entries)
  BY DEF Wrote
<1>2. /\ bookings'[p.booking].tripType = row.tripType /\ overnightStays'[p.booking] = stays
      /\ \A c \in BookingIds \ {p.booking} :
           bookings'[c] = bookings[c] /\ overnightStays'[c] = overnightStays[c]
      /\ Existing' = Existing \cup {p.booking}
  BY <1>1, AfterCommit
<1>3. b \in BookingIds
  BY DEF Existing
<1>4. CASE b # p.booking
  BY <1>2, <1>3, <1>4 DEF Fitting
<1>5. CASE b = p.booking /\ p.stage # "writing"
  BY <1>2, <1>5 DEF Fitting, Wrote
<1>6. CASE b = p.booking /\ p.stage = "writing"
  <2>1. row = p.row /\ stays = p.stays /\ p.stayAnswer = "200"
    BY <1>6 DEF Wrote
  <2>2. Obedient(p) /\ (p.existing = NoBooking <=> p.booking \notin Existing)
    BY <1>6, WroteObedient
  <2>3. CASE StaysFit(p.row.tripType, p.stays)
    BY <1>2, <1>6, <2>1, <2>3 DEF Fitting
  <2>4. CASE KeepsTripType(p)
    <3>1. b \in Existing /\ CommitsWrite(h, b)
      BY <1>6, <2>2, <2>4, WroteFacts DEF KeepsTripType
    <3>2. WroteForOtherTrip(h, b)
      BY <1>2, <1>6, <2>1, <2>4, <3>1 DEF KeepsTripType, WroteForOtherTrip
    <3> QED
      BY <3>2
  <2> QED
    BY <2>1, <2>2, <2>3, <2>4 DEF Obedient
<1> QED
  BY <1>4, <1>5, <1>6

\* City trips have no overnight stay and overnight trips have one, for any number
\* of requests at once, but for the update that kept a trip type it had not read.
THEOREM StayFitsTripAlways == Spec => StayFitsTrip
<1>1. IInv /\ AllReady /\ [Next]_vars =>
        \A b \in Existing' :
          \/ Fitting(b)'
          \/ /\ b \in Existing /\ ~ Fitting(b)
             /\ bookings'[b].tripType = bookings[b].tripType
             /\ overnightStays'[b] = overnightStays[b]
          \/ \E h \in Handlers : WroteForOtherTrip(h, b)
  <2> SUFFICES ASSUME IInv, AllReady, [Next]_vars, NEW b \in Existing'
               PROVE  \/ Fitting(b)'
                      \/ /\ b \in Existing /\ ~ Fitting(b)
                         /\ bookings'[b].tripType = bookings[b].tripType
                         /\ overnightStays'[b] = overnightStays[b]
                      \/ \E h \in Handlers : WroteForOtherTrip(h, b)
    OBVIOUS
  <2>1. TypeOK /\ HandlersOnExisting
    BY DEF IInv, BookingInv
  <2>2. CASE UNCHANGED tables
    BY <2>2 DEF tables, Fitting, Existing
  <2>3. CASE \E h \in Handlers, row \in Rows : \E stays, entries : Wrote(h, row, stays, entries)
    BY <2>1, <2>3, StayStep
  <2> QED
    BY <2>1, <2>2, <2>3, StepWrites
<1> QED
  BY <1>1, Readiness, Invariance, PTL DEF Spec, StayFitsTrip

LEMMA TablesAsDocumented ==
  ASSUME NEW from \in BookingStatuses, NEW to, NEW role, from # to,
         TransitionAllowed(from, to, role)
  PROVE  DocumentedMove(from, to, role)
<1>1. CASE role = "ADMIN"
  BY <1>1 DEF TransitionAllowed, DocumentedMove
<1>2. CASE role # "ADMIN"
  <2>1. to \in staffTransitions[from]
    BY <1>2 DEF TransitionAllowed
  <2> QED
    BY <2>1 DEF staffTransitions, StaffMoves, BookingStatuses, DocumentedMove
<1> QED
  BY <1>1, <1>2

\* The status a handler that is about to change it has read.
LEMMA ReadStatus ==
  ASSUME TypeOK, NEW h \in Handlers, handlers[h].stage \in {"changing", "cancelling"}
  PROVE  handlers[h].existing.status \in BookingStatuses
<1>1. handlers[h] \in ChangingHandlers \/ handlers[h] \in CancellingHandlers
  BY DEF TypeOK, HandlerStates, IdleHandlers, UpdatingHandlers,
         ChangingHandlers, CancellingHandlers, WritingHandlers
<1> QED
  BY <1>1 DEF ChangingHandlers, CancellingHandlers, Rows

\* Statuses move as the documents say, for any number of requests at once, from the
\* status the booking has or from the one it had when the request read it; an
\* update moves nothing.
THEOREM StatusMovesAlways == Spec => StatusMovesAsDocumented
<1> DEFINE Move(h, b) ==
             LET read == handlers[h].existing.status
                 to == bookings'[b].status
                 role == handlers[h].role
             IN /\ CommitsStatus(h, b)
                /\ \/ DocumentedMove(bookings[b].status, to, role)
                   \/ /\ read # bookings[b].status
                      /\ read = to \/ DocumentedMove(read, to, role)
<1>1. IInv /\ AllReady /\ [Next]_vars =>
        \A b \in Existing :
          bookings'[b].status # bookings[b].status => \E h \in Handlers : Move(h, b)
  <2> SUFFICES ASSUME IInv, AllReady, [Next]_vars, NEW b \in Existing,
                      bookings'[b].status # bookings[b].status
               PROVE  \E h \in Handlers : Move(h, b)
    OBVIOUS
  <2>1. TypeOK /\ HandlersOnExisting /\ b \in BookingIds
    BY DEF IInv, BookingInv, Existing
  <2>2. PICK h \in Handlers, row \in Rows : \E stays, entries : Wrote(h, row, stays, entries)
    BY <2>1, StepWrites DEF tables
  <2>3. PICK stays, entries : Wrote(h, row, stays, entries)
    BY <2>2
  <2> DEFINE p == handlers[h]
  <2>4. p.booking \in BookingIds /\ Commit(p.booking, row, stays, entries)
    BY <2>3 DEF Wrote
  <2>5. /\ bookings'[p.booking].status = row.status
        /\ \A c \in BookingIds \ {p.booking} : bookings'[c] = bookings[c]
    BY <2>1, <2>4, AfterCommit
  <2>6. p.booking = b
    BY <2>1, <2>5
  <2>7. p.stage # "writing"
    BY <2>3, <2>5, <2>6, WroteObedient DEF Obedient, Wrote
  <2>8. p.stage \in {"changing", "cancelling"} /\ CommitsStatus(h, b)
    BY <2>1, <2>3, <2>6, <2>7, WroteFacts DEF Wrote
  <2>9. TransitionAllowed(p.existing.status, row.status, p.role)
    BY <2>3, <2>7 DEF Wrote
  <2>10. p.existing.status = row.status \/ DocumentedMove(p.existing.status, row.status, p.role)
    BY <2>1, <2>8, <2>9, ReadStatus, TablesAsDocumented
  <2>11. Move(h, b)
    BY <2>5, <2>6, <2>8, <2>10
  <2> QED
    BY <2>11
<1> QED
  BY <1>1, Readiness, Invariance, PTL DEF Spec, StatusMovesAsDocumented

\* No create or update leaves its booking on a vehicle or a driver that its own
\* snapshot shows as not assignable, for any number of requests at once, but for the
\* update that kept a vehicle or a driver it had not read.
THEOREM AssignmentsAssignableAlways == Spec => AssignmentsAssignable
<1> DEFINE Good(h, b) ==
             LET row == bookings'[b]
                 p == handlers[h]
             IN /\ \/ VehicleAssignable(p.snapshot.vehicles[row.vehicle])
                   \/ /\ b \in Existing /\ row.vehicle = bookings[b].vehicle
                      /\ p.existing.vehicle # row.vehicle
                /\ \/ DriverAssignable(p.snapshot.drivers[row.driver])
                   \/ /\ b \in Existing /\ row.driver = bookings[b].driver
                      /\ p.existing.driver # row.driver
<1>1. IInv /\ AllReady /\ [Next]_vars =>
        \A h \in Handlers : \A b \in BookingIds : CommitsWrite(h, b) => Good(h, b)
  <2> SUFFICES ASSUME IInv, AllReady, [Next]_vars, NEW h \in Handlers, NEW b \in BookingIds,
                      CommitsWrite(h, b)
               PROVE  Good(h, b)
    OBVIOUS
  <2>1. TypeOK /\ HandlersOnExisting /\ CommittedBy(h) /\ handlers[h].stage = "writing"
        /\ handlers[h].booking = b
    BY DEF IInv, BookingInv, CommitsWrite
  <2>2. PICK g \in Handlers, row \in Rows : \E stays, entries : Wrote(g, row, stays, entries)
    BY <2>1, StepWrites DEF CommittedBy, tables
  <2>3. PICK stays, entries : Wrote(g, row, stays, entries)
    BY <2>2
  <2>4. g = h
    BY <2>1, <2>3, WroteFacts
  <2> DEFINE p == handlers[h]
  <2>5. row = p.row /\ Commit(b, row, stays, entries)
    BY <2>1, <2>3, <2>4 DEF Wrote
  <2>6. bookings'[b].vehicle = p.row.vehicle /\ bookings'[b].driver = p.row.driver
    BY <2>1, <2>5, AfterCommit
  <2>7. Obedient(p) /\ (p.existing = NoBooking <=> b \notin Existing)
    BY <2>1, <2>3, <2>4, WroteObedient
  <2> QED
    BY <2>1, <2>6, <2>7 DEF Obedient, KeepsVehicle, KeepsDriver
<1> QED
  BY <1>1, Readiness, Invariance, PTL DEF Spec, AssignmentsAssignable

-----------------------------------------------------------------------------
(***************************************************************************)
(* The audit log as one history.                                           *)
(***************************************************************************)

LogsOfExisting == \A b \in BookingIds \ Existing : auditLog[b] = << >>

\* One status at the end, which continues from the status the booking has.
Continues(entries, b) ==
  /\ entries \in Seq(AuditEntries) /\ entries # << >>
  /\ \A i \in 1..(Len(entries) - 1) : entries[i].new = Absent
  /\ b \in Existing => entries[Len(entries)].old = bookings[b].status

\* Where a log of length m is continued by n entries, of which the last alone
\* tells of a status, that one follows the entry m.  tells[k]: entry k does.
LEMMA StatusAtSeam ==
  ASSUME NEW m \in Nat, NEW n \in Nat \ {0}, NEW i \in Nat \ {0}, NEW j \in Nat,
         NEW tells, i < j, j <= m + n, j > m, tells[i], tells[j],
         \A k \in (i + 1)..(j - 1) : ~ tells[k],
         \A k \in (m + 1)..(m + n - 1) : ~ tells[k],
         m > 0 => tells[m]
  PROVE  m > 0 /\ i = m /\ j = m + n
<1>1. j = m + n
  OBVIOUS
<1>2. i <= m /\ m > 0
  BY <1>1
<1>3. i = m
  BY <1>1, <1>2
<1> QED
  BY <1>1, <1>2, <1>3

\* What is appended to a log that ends with a status continues from that one.
LEMMA ChainAppended ==
  ASSUME NEW s \in Seq(AuditEntries), NEW t \in Seq(AuditEntries), t # << >>, Chained(s),
         \A i \in 1..(Len(t) - 1) : t[i].new = Absent,
         s # << >> => s[Len(s)].new # Absent /\ t[Len(t)].old = s[Len(s)].new
  PROVE  Chained(s \o t)
<1> DEFINE log == s \o t
           m == Len(s)
           n == Len(t)
<1>1. /\ m \in Nat /\ n \in Nat \ {0}
      /\ m > 0 => s # << >>
      /\ DOMAIN log = 1..(m + n) /\ DOMAIN s = 1..m
  OBVIOUS
<1>2. \A i \in 1..m : log[i] = s[i]
  OBVIOUS
<1>3. \A i \in (m + 1)..(m + n) : log[i] = t[i - m]
  OBVIOUS
<1>4. \A i \in (m + 1)..(m + n - 1) : log[i].new = Absent
  BY <1>1, <1>3
<1>5. log[m + n] = t[n]
  BY <1>1, <1>3
<1> HIDE DEF log
<1> SUFFICES ASSUME NEW i \in 1..(m + n), NEW j \in 1..(m + n), NextStatus(log, i, j)
             PROVE  log[j].old = log[i].new
  BY <1>1 DEF Chained, log
<1>6. CASE j <= m
  <2>1. i \in 1..m /\ j \in 1..m
    BY <1>1, <1>6 DEF NextStatus
  <2>2. log[i] = s[i] /\ log[j] = s[j] /\ \A k \in (i + 1)..(j - 1) : log[k] = s[k]
    BY <1>1, <1>2, <2>1
  <2>3. NextStatus(s, i, j)
    BY <2>2 DEF NextStatus
  <2> QED
    BY <1>1, <2>1, <2>2, <2>3 DEF Chained
<1>7. CASE j > m
  <2>1. m > 0 => log[m] = s[m] /\ s[m].new # Absent /\ t[n].old = s[m].new
    BY <1>1, <1>2
  <2>2. log[i].new # Absent /\ log[j].new # Absent /\ i < j
        /\ \A k \in (i + 1)..(j - 1) : log[k].new = Absent
    BY DEF NextStatus
  <2> DEFINE tells == [ k \in 1..(m + n) |-> log[k].new # Absent ]
  <2>3. /\ tells[i] /\ tells[j]
        /\ \A k \in (i + 1)..(j - 1) : ~ tells[k]
        /\ \A k \in (m + 1)..(m + n - 1) : ~ tells[k]
        /\ m > 0 => tells[m]
    <3>1. \A k \in 1..(m + n) : tells[k] <=> log[k].new # Absent
      OBVIOUS
    <3> HIDE DEF tells
    <3>2. tells[i] /\ tells[j]
      BY <2>2, <3>1
    <3>3. \A k \in (i + 1)..(j - 1) : k \in 1..(m + n)
      BY <1>1, <2>2
    <3>4. \A k \in (m + 1)..(m + n - 1) : k \in 1..(m + n)
      BY <1>1
    <3>5. m > 0 => tells[m]
      BY <1>1, <2>1, <3>1
    <3> QED
      BY <1>4, <2>2, <3>1, <3>2, <3>3, <3>4, <3>5
  <2> HIDE DEF tells, m, n
  <2>4. /\ m \in Nat /\ n \in Nat \ {0} /\ i \in Nat \ {0} /\ j \in Nat
        /\ i < j /\ j <= m + n /\ j > m
    BY <1>1, <1>7, <2>2
  <2>5. m > 0 /\ i = m /\ j = m + n
    BY <2>3, <2>4, StatusAtSeam
  <2> QED
    BY <1>5, <2>1, <2>5
<1> QED
  BY <1>1, <1>6, <1>7

LEMMA OneContinues ==
  ASSUME NEW last \in AuditEntries, NEW b, b \in Existing => last.old = bookings[b].status
  PROVE  Continues(<< last >>, b)
BY DEF Continues

LEMMA TwoContinue ==
  ASSUME NEW s \in Seq(AuditEntries), NEW t \in Seq(AuditEntries), NEW b,
         Len(s) = 1 /\ s[1].new = Absent /\ Len(t) = 1,
         b \in Existing => t[1].old = bookings[b].status
  PROVE  Continues(s \o t, b)
<1> DEFINE w == s \o t
<1>1. w \in Seq(AuditEntries) /\ Len(w) = 2 /\ w[1] = s[1] /\ w[2] = t[1]
  <2>1. /\ w \in Seq(AuditEntries) /\ Len(w) = Len(s) + Len(t)
        /\ \A i \in 1..(Len(s) + Len(t)) : w[i] = IF i <= Len(s) THEN s[i] ELSE t[i - Len(s)]
    BY ConcatProperties
  <2> QED
    BY <2>1
<1> HIDE DEF w
<1>2. w # << >>
  BY <1>1
<1>3. \A i \in 1..(Len(w) - 1) : w[i].new = Absent
  BY <1>1
<1>4. Continues(w, b)
  BY <1>1, <1>2, <1>3 DEF Continues
<1> QED
  BY <1>4 DEF w

\* The entries of a create or an update.
LEMMA WriteContinues ==
  ASSUME NEW p \in WritingHandlers,
         p.booking \in Existing => OldStatus(p.existing) = bookings[p.booking].status
  PROVE  Continues(WriteEntries(p), p.booking)
<1> DEFINE override == Entry("OVERNIGHT_COST_OVERRIDDEN", p.role, Absent, Absent)
           first == IF p.override THEN << override >> ELSE << >>
           last == Entry(IF p.existing = NoBooking THEN "BOOKING_CREATED" ELSE "BOOKING_UPDATED",
                         p.role, OldStatus(p.existing), p.row.status)
           one == << override >>
           single == << last >>
<1>1. override \in AuditEntries /\ override.new = Absent /\ last \in AuditEntries /\ last.old = OldStatus(p.existing)
  BY OldStatusType DEF Entry, AuditEntries, WritingHandlers, Rows
<1>2. WriteEntries(p) = first \o single
  BY DEF WriteEntries
<1> HIDE DEF override, last
<1>3. CASE p.override
  <2>1. /\ one \in Seq(AuditEntries) /\ Len(one) = 1 /\ one[1] = override
        /\ single \in Seq(AuditEntries) /\ Len(single) = 1 /\ single[1] = last
    BY <1>1
  <2>2. WriteEntries(p) = one \o single
    BY <1>2, <1>3
  <2> HIDE DEF one, single
  <2>3. Continues(one \o single, p.booking)
    BY <1>1, <2>1, TwoContinue
  <2> QED
    BY <2>2, <2>3
<1>4. CASE ~ p.override
  <2>1. single \in Seq(AuditEntries)
    BY <1>1
  <2>2. WriteEntries(p) = << >> \o single
    BY <1>2, <1>4
  <2>3. Continues(single, p.booking)
    BY <1>1, OneContinues
  <2> HIDE DEF single
  <2>4. << >> \o single = single
    BY <2>1
  <2> QED
    BY <2>2, <2>3, <2>4
<1> QED
  BY <1>3, <1>4

\* A commit whose entries continue keeps the log in one piece.
LEMMA ChainCommitted ==
  ASSUME TypeOK, AuditTellsStatus, LogsOfExisting, NEW b \in BookingIds, NEW row, NEW stays,
         NEW entries, Commit(b, row, stays, entries), Continues(entries, b), Chained(auditLog[b])
  PROVE  Chained(auditLog'[b])
<1>1. auditLog'[b] = auditLog[b] \o entries
  BY DEF Commit, TypeOK
<1>2. auditLog[b] \in Seq(AuditEntries) /\ entries \in Seq(AuditEntries) /\ entries # << >>
  BY DEF TypeOK, Continues
<1>3. ASSUME auditLog[b] # << >>
      PROVE  /\ auditLog[b][Len(auditLog[b])].new # Absent
             /\ entries[Len(entries)].old = auditLog[b][Len(auditLog[b])].new
  <2>1. b \in Existing /\ bookings[b] \in Rows
    BY <1>3 DEF TypeOK, Existing, LogsOfExisting
  <2>2. bookings[b].status # Absent
    BY <2>1, BookingsAssumption DEF Rows
  <2> QED
    BY <2>1, <2>2 DEF AuditTellsStatus, Continues
<1>4. \A i \in 1..(Len(entries) - 1) : entries[i].new = Absent
  BY DEF Continues
<1> QED
  BY <1>1, <1>2, <1>3, <1>4, ChainAppended

LEMMA LogsStep == IInv /\ AllReady /\ LogsOfExisting /\ [Next]_vars => LogsOfExisting'
<1> SUFFICES ASSUME IInv, AllReady, LogsOfExisting, [Next]_vars PROVE LogsOfExisting'
  OBVIOUS
<1>1. TypeOK /\ HandlersOnExisting
  BY DEF IInv, BookingInv
<1>2. CASE UNCHANGED tables
  BY <1>2 DEF tables, LogsOfExisting, Existing
<1>3. ASSUME NEW b \in BookingIds, NEW row \in Rows, NEW stays, NEW entries,
             Commit(b, row, stays, entries)
      PROVE  LogsOfExisting'
  <2>1. \A c \in BookingIds \ {b} : auditLog'[c] = auditLog[c]
    BY <1>1, <1>3 DEF Commit, TypeOK
  <2>2. Existing' = Existing \cup {b}
    BY <1>1, <1>3, AfterCommit
  <2> QED
    BY <2>1, <2>2 DEF LogsOfExisting
<1> QED
  BY <1>1, <1>2, <1>3, StepWrites DEF Wrote

\* The commit of a request that read the status the booking still has continues its log.
LEMMA ChainStep ==
  ASSUME IInv, AllReady, AuditTellsStatus, LogsOfExisting, NEW h \in Handlers, NEW row \in Rows,
         NEW stays, NEW entries, Wrote(h, row, stays, entries), NEW b \in BookingIds,
         Chained(auditLog[b])
  PROVE  \/ Chained(auditLog'[b])
         \/ /\ b \in Existing
            /\ CommitsWrite(h, b) \/ CommitsStatus(h, b)
            /\ handlers[h].existing.status # bookings[b].status
<1> DEFINE p == handlers[h]
<1>1. TypeOK /\ Commit(p.booking, row, stays, entries) /\ p.booking \in BookingIds
  BY DEF IInv, Wrote
<1>2. CASE b # p.booking
  <2>1. auditLog'[b] = auditLog[b]
    BY <1>1, <1>2 DEF Commit, TypeOK
  <2> QED
    BY <2>1
<1>3. CASE b = p.booking /\ b \in Existing /\ p.existing.status # bookings[b].status
  <2>1. CommitsWrite(h, b) \/ CommitsStatus(h, b)
    BY <1>1, <1>3, WroteFacts
  <2> QED
    BY <1>3, <2>1
<1>4. CASE b = p.booking /\ (b \in Existing => p.existing.status = bookings[b].status)
  <2>1. Continues(entries, b)
    <3>1. CASE p.stage = "writing"
      <4>1. p \in WritingHandlers /\ entries = WriteEntries(p)
        BY <3>1 DEF Wrote
      <4>2. p.existing = NoBooking <=> p.booking \notin Existing
        BY <3>1, WroteObedient
      <4>3. p.booking \in Existing => OldStatus(p.existing) = bookings[p.booking].status
        BY <1>4, <4>2 DEF OldStatus
      <4> QED
        BY <1>4, <4>1, <4>3, WriteContinues
    <3>2. CASE p.stage # "writing"
      <4>1. PICK entry \in AuditEntries : entries = << entry >> /\ entry.old = p.existing.status
        BY <3>2 DEF Wrote
      <4>2. b \in Existing => entry.old = bookings[b].status
        BY <1>4, <4>1
      <4> QED
        BY <4>1, <4>2, OneContinues
    <3> QED
      BY <3>1, <3>2
  <2> QED
    BY <1>1, <1>4, <2>1, ChainCommitted
<1> QED
  BY <1>2, <1>3, <1>4

\* The audit log of a booking is one history of its status for any number of requests
\* at once, and breaks off only where a request writes a booking whose status another
\* one changed after it was read.
THEOREM AuditChainsAlways == Spec => AuditChains
<1>1. Init => LogsOfExisting
  BY DEF Init, LogsOfExisting
<1>2. IInv /\ AllReady /\ AuditTellsStatus /\ LogsOfExisting /\ [Next]_vars =>
        \A b \in BookingIds :
          \/ Chained(auditLog[b]) => Chained(auditLog'[b])
          \/ /\ b \in Existing
             /\ \E h \in Handlers :
                  /\ CommitsWrite(h, b) \/ CommitsStatus(h, b)
                  /\ handlers[h].existing.status # bookings[b].status
  <2> SUFFICES ASSUME IInv, AllReady, AuditTellsStatus, LogsOfExisting, [Next]_vars,
                      NEW b \in BookingIds, Chained(auditLog[b]), ~ Chained(auditLog'[b])
               PROVE  /\ b \in Existing
                      /\ \E h \in Handlers :
                           /\ CommitsWrite(h, b) \/ CommitsStatus(h, b)
                           /\ handlers[h].existing.status # bookings[b].status
    OBVIOUS
  <2>1. TypeOK /\ HandlersOnExisting
    BY DEF IInv, BookingInv
  <2>2. ~ UNCHANGED tables
    BY DEF tables
  <2> QED
    BY <2>1, <2>2, StepWrites, ChainStep
<1> QED
  BY <1>1, <1>2, LogsStep, AuditIsCurrent, Readiness, Invariance, PTL DEF Spec, AuditChains

=============================================================================
