-------------------------------- MODULE Desk --------------------------------
(***************************************************************************)
(* One screen of the web application before the database: the lists        *)
(* (BookingsPage, VehiclesPage, DriversPage, CustomersPage), the booking   *)
(* dialog with its availability check, the dashboard and the reports.      *)
(* They share one shape.  Controls that the user sets start a request, at  *)
(* once or when a timer has run out; the handler of the request reads the  *)
(* database in several statements of Promise.all, in any order; the        *)
(* answers come in any order, and each overwrites what is shown.  A save   *)
(* waits for its answer and then loads again with the controls it captured.*)
(* Meanwhile others commit to the same tables.  Bookings change here as    *)
(* the calendar that Bookings.tla is proved to implement.                  *)
(***************************************************************************)
EXTENDS Queries

CONSTANTS
  BookingIds, Vehicles, Drivers, None,
  Slots,                \* requests of the screen under way at once
  Starts,               \* screens and the databases they are opened on
  Asks,                 \* what the availability endpoint may be asked
  Controls,             \* per screen, what the user may set
  NewRows,              \* what others may book
  Settings,             \* the overnight buffers
  Seats,                \* passengerCapacity of each vehicle
  PageSize, Period, Today, Now,
  Role,                 \* of the user at the screen
  MaxRequests,          \* bound: requests and exports, per screen
  MaxCommits            \* bound: commits while the screen is open, its own included

VARIABLES
  screen,
  bookings, vehicles, commits,
  controls,             \* the state of the inputs
  timer,                \* a debounced effect is due
  requests,
  sent,                 \* requests sent so far
  shown,                \* the answer on the screen, or None
  busy,                 \* isLoading, isCheckingAvailability
  saving,               \* the save or the export under way
  stray                 \* history: the last answer came late or was an error

tables == << bookings, vehicles, commits >>
panel == << controls, timer, shown, busy, stray >>
asked == << requests, sent >>
vars == << screen, tables, panel, asked, saving >>

-----------------------------------------------------------------------------

\* list is the page of the bookings, fleet that of the vehicles, the drivers or
\* the customers.
Screens == {"closed", "list", "fleet", "form", "dashboard", "reports"}

Statements ==
  [ closed    |-> {},
    list      |-> {"items", "total"},
    fleet     |-> {"items", "total"},
    form      |-> {"conflict", "alternatives"},
    dashboard |-> {"items", "total", "bars", "vehicles"},
    reports   |-> {"items"} ]

RowRecords ==
  [ id : BookingIds, vehicle : Vehicles, driver : Drivers, startAt : Int, endAt : Int,
    from : Int, to : Int, tripType : TripTypes, status : BookingStatuses, cost : Nat ]

\* The window a row holds its vehicle and its driver for covers its trip: that is
\* BookingInv of Bookings.
Covers(row) == row.from <= row.startAt /\ row.startAt < row.endAt /\ row.endAt <= row.to

\* How many rows a list may count.
Totals == 0..Max({Cardinality(BookingIds), Cardinality(Vehicles)})

NoAnswer == [ items |-> {}, total |-> 0, bars |-> {}, vehicles |-> {}, drivers |-> {},
              conflict |-> {} ]
AnswerRecords ==
  [ items : SUBSET (BookingIds \cup Vehicles),
    total : Totals,
    bars : SUBSET (BookingIds \X Vehicles), vehicles : SUBSET Vehicles,
    drivers : SUBSET Drivers, conflict : SUBSET {"vehicle", "driver"} ]

\* The dialog before anything is chosen.
EmptyForm == [ open |-> FALSE, editing |-> None, vehicle |-> None, driver |-> None,
               startAt |-> 0, endAt |-> 0, tripType |-> "CITY" ]

\* What the inputs of the dialog may hold.
FormRecords ==
  [ open : BOOLEAN, editing : BookingIds \cup {None}, vehicle : Vehicles \cup {None},
    driver : Drivers \cup {None}, startAt : Int, endAt : Int, tripType : TripTypes ]

(***************************************************************************)
(* The queries of a list reach every page that an answer may offer, and    *)
(* the page a filter starts on; the tabs of the reports keep the other     *)
(* filters.                                                                *)
(***************************************************************************)
ASSUME DeskAssumption ==
  /\ IsFiniteSet(BookingIds) /\ IsFiniteSet(Vehicles) /\ IsFiniteSet(Drivers)
  /\ None \notin RowRecords /\ None \notin BookingIds \cup Vehicles \cup Drivers
  /\ Any \notin BookingStatuses \cup TripTypes
  /\ Settings \in [ pre : Nat, post : Nat ] /\ Seats \in [ Vehicles -> Nat ]
  /\ PageSize \in Nat \ {0}
  /\ Period \in [ from : Int, to : Int ] /\ Today \in Int /\ Now \in Int
  /\ Asks \subseteq FormRecords
  /\ \A s \in Screens : None \notin Controls[s]
  /\ None # EmptyForm /\ Controls["form"] \subseteq FormRecords
  /\ [ EmptyForm EXCEPT !.open = TRUE ] \in Controls["form"]
  /\ \A s \in {"list", "fleet"} : \A c \in Controls[s] :
       /\ DOMAIN c = {"status", "page"} /\ c.page \in Nat \ {0}
       /\ [ c EXCEPT !.page = 1 ] \in Controls[s]
       /\ c.page > 1 => [ c EXCEPT !.page = @ - 1 ] \in Controls[s]
       /\ \A total \in Totals :
            c.page < PageCount(total, PageSize) => [ c EXCEPT !.page = @ + 1 ] \in Controls[s]
  /\ \A c, d \in Controls["reports"] : [ c EXCEPT !.type = d.type ] \in Controls["reports"]
  /\ \A row \in NewRows : row \in RowRecords /\ Covers(row)
  /\ \A s \in Starts :
       /\ s.screen \in Screens
       /\ s.controls \in IF s.screen = "form" THEN {EmptyForm} ELSE Controls[s.screen]
       /\ s.bookings \in [ BookingIds -> RowRecords \cup {None} ]
       /\ \A b \in BookingIds :
            s.bookings[b] # None => s.bookings[b].id = b /\ Covers(s.bookings[b])

\* changed: others committed since the first statement.  late: a request sent
\* after this one has ended before it.
IdleRequest == [ about |-> None, waiting |-> {}, answer |-> NoAnswer, changed |-> FALSE,
                 late |-> FALSE, before |-> {} ]

\* dialog: the question over the list of bookings, or None.
NotSaving == [ stage |-> "none", about |-> None, target |-> None, outlived |-> FALSE,
               answer |-> "none", details |-> NoAnswer, dialog |-> None ]

Rows == { bookings[b] : b \in { c \in BookingIds : bookings[c] # None } }
RowsBut(b) == { row \in Rows : row.id # b }
DriverRows == [ d \in Drivers |-> [ status |-> "AVAILABLE", deleted |-> FALSE ] ]

InFlight == { r \in Slots : requests[r].about # None }
FreeSlot == CHOOSE r \in Slots \ InFlight : TRUE

-----------------------------------------------------------------------------
(***************************************************************************)
(* The database                                                            *)
(***************************************************************************)
Free(row) == Blocking(row) => Conflicts(row.vehicle, row.driver, row, RowsBut(row.id)) = {}

\* A commit, and who will not see it any more.
Commit(newBookings, newVehicles) ==
  /\ commits < MaxCommits /\ commits' = commits + 1
  /\ bookings' = newBookings
  /\ vehicles' = newVehicles
  /\ requests' = [ r \in Slots |->
                     [ requests[r] EXCEPT
                         !.changed = requests[r].about # None
                                       /\ (@ \/ requests[r].waiting # Statements[screen]) ] ]
  /\ shown' = IF shown = None THEN None ELSE [ shown EXCEPT !.changed = TRUE ]
  /\ UNCHANGED << screen, controls, timer, busy, stray, sent >>

BookElsewhere ==
  \E b \in BookingIds, new \in NewRows :
    /\ bookings[b] = None /\ Free([ new EXCEPT !.id = b ])
    /\ Commit([ bookings EXCEPT ![b] = [ new EXCEPT !.id = b ] ], vehicles)
    /\ UNCHANGED saving

ChangeElsewhere ==
  \E row \in Rows, to \in {"CONFIRMED", "CANCELLED"} :
    /\ to # row.status /\ Free([ row EXCEPT !.status = to ])
    /\ Commit([ bookings EXCEPT ![row.id].status = to ], vehicles)
    /\ UNCHANGED saving

\* Mutant: a deleted vehicle keeps its status.
RetiredAsItWas(v) == [ vehicles EXCEPT ![v].deleted = TRUE ]

\* deleteVehicle
Retired(v) == [ vehicles EXCEPT ![v].status = "INACTIVE", ![v].deleted = TRUE ]

VehicleElsewhere ==
  \E v \in Vehicles :
    /\ ~ vehicles[v].deleted
    /\ \/ \E to \in {"AVAILABLE", "MAINTENANCE"} \ {vehicles[v].status} :
            Commit(bookings, [ vehicles EXCEPT ![v].status = to ])
       \/ Commit(bookings, Retired(v))
    /\ UNCHANGED saving

-----------------------------------------------------------------------------
(***************************************************************************)
(* The handlers, statement by statement                                    *)
(***************************************************************************)
Day == [ from |-> Today, to |-> Today + 1 ]

\* listVehicles, and listDrivers and listCustomers alike
ReadFleet(statement, about, a) ==
  LET listed == InServiceWith(about.status, vehicles) IN
  IF statement = "total" THEN { [ a EXCEPT !.total = Cardinality(listed) ] }
  ELSE { [ a EXCEPT !.items = PageOf(s, about.page, PageSize) ] : s \in Listings(listed) }

\* listBookings
ReadList(statement, about, a) ==
  LET rows == Matching([ status |-> about.status ], Rows) IN
  IF statement = "total" THEN { [ a EXCEPT !.total = Cardinality(rows) ] }
  ELSE { [ a EXCEPT !.items = Ids(PageOf(s, about.page, PageSize)) ] : s \in Orders(rows) }

\* The alternatives that may be put into an answer.
WithAlternatives(a, about, seats) ==
  UNION { { [ a EXCEPT !.vehicles = free, !.drivers = idle ] :
              idle \in AlternativeDrivers(about, Settings, Rows, DriverRows) } :
          free \in AlternativeVehicles(about, seats, Settings, Rows, vehicles) }

\* checkBookingConflicts.  Its four reads are two here: of the conflicts, and of
\* the alternatives.
ReadAvailability(statement, about, a) ==
  IF statement = "conflict" THEN { [ a EXCEPT !.conflict = ConflictKinds(about, Settings, Rows) ] }
  ELSE WithAlternatives(a, about, IF about.vehicle = None THEN 0 ELSE Seats[about.vehicle])

\* What z.coerce.boolean makes of the query string the screen sends.
Parsed(about) ==
  [ status |-> about.status,
    tripType |-> IF CoerceBoolean(QueryText(about.overnightOnly)) THEN "OVERNIGHT" ELSE Any ]

\* getDashboardSummary (today's count and dispatch) and getVehicleTimeline
ReadDashboard(statement, about, a) ==
  CASE statement = "total" -> { [ a EXCEPT !.total = BookingCards(Period, Today, Now, Rows).today ] }
    [] statement = "items" -> { [ a EXCEPT !.items = Ids(listed) ] : listed \in TodaysDispatch(Today, Rows) }
    [] statement = "vehicles" ->
         { [ a EXCEPT !.vehicles = listed ] : listed \in TimelineVehicles(about.vehicleStatus, vehicles) }
    [] statement = "bars" ->
         { [ a EXCEPT !.bars = { << row.id, row.vehicle >> : row \in bars } ] :
             bars \in Bars(Parsed(about), Period, Rows) }

\* generateReport and preview
ReadReport(statement, about, a) ==
  { [ a EXCEPT !.items = Ids(listed) ] :
      listed \in IF Permitted(about.type, Role)
                 THEN UNION { Preview(report) : report \in BookingRows(about.type, Parsed(about), Period, Rows) }
                 ELSE {} }

Read(statement, about, a) ==
  CASE screen = "list" -> ReadList(statement, about, a)
    [] screen = "fleet" -> ReadFleet(statement, about, a)
    [] screen = "form" -> ReadAvailability(statement, about, a)
    [] screen = "dashboard" -> ReadDashboard(statement, about, a)
    [] screen = "reports" -> ReadReport(statement, about, a)

Serve(r) ==
  /\ \E statement \in requests[r].waiting :
       \E a \in Read(statement, requests[r].about, requests[r].answer) :
         requests' = [ requests EXCEPT ![r].waiting = @ \ {statement}, ![r].answer = a ]
  /\ UNCHANGED << screen, tables, panel, sent, saving >>

-----------------------------------------------------------------------------
(***************************************************************************)
(* Requests of the screen                                                  *)
(***************************************************************************)
Send(about, late) ==
  /\ InFlight # Slots
  /\ sent < MaxRequests[screen] /\ sent' = sent + 1
  /\ requests' = [ requests EXCEPT ![FreeSlot] =
       [ IdleRequest EXCEPT !.about = about, !.waiting = Statements[screen], !.late = late,
                            !.before = InFlight ] ]

Ended(r) ==
  [ q \in Slots |->
      IF q = r THEN IdleRequest
      ELSE [ requests[q] EXCEPT !.late = @ \/ q \in requests[r].before, !.before = @ \ {r} ] ]

\* The answer overwrites what is shown, whatever was asked since.
Deliver(r) ==
  LET q == requests[r] IN
  /\ q.about # None /\ q.waiting = {}
  /\ shown' = [ about |-> q.about, answer |-> q.answer, changed |-> q.changed ]
  /\ stray' = q.late
  /\ requests' = Ended(r)
  /\ busy' = FALSE
  /\ UNCHANGED << screen, tables, controls, timer, sent, saving >>

\* An error answer, or none: what is shown stays, under a message.
Fail(r) ==
  /\ requests[r].about # None
  /\ stray' = TRUE
  /\ requests' = Ended(r)
  /\ busy' = FALSE
  /\ UNCHANGED << screen, tables, controls, timer, shown, sent, saving >>

-----------------------------------------------------------------------------
(***************************************************************************)
(* The user at the controls                                                *)
(***************************************************************************)

\* The check needs the dates and one of the two resources.
Complete(c) == c.open /\ c.endAt > c.startAt /\ (c.vehicle # None \/ c.driver # None)

Outlived == [ saving EXCEPT !.outlived = saving.stage # "none" ]

\* A question lies over the whole page.
Overlaid == saving.dialog # None

\* The lists load at once for a new query.
Query(c) ==
  /\ screen \in {"list", "fleet"} /\ ~ Overlaid
  /\ controls' = c
  /\ Send(c, FALSE)
  /\ busy' = TRUE
  /\ saving' = Outlived
  /\ UNCHANGED << screen, tables, timer, shown, stray >>

\* A filter starts on the first page.
ChangeFilter ==
  screen \in {"list", "fleet"} /\ \E c \in Controls[screen] :
    c.status # controls.status /\ c.page = 1 /\ Query(c)

\* totalPages, of the last answer
Pages == IF shown = None THEN 1 ELSE Max({1, PageCount(shown.answer.total, PageSize)})

TurnPage ==
  /\ screen \in {"list", "fleet"}
  /\ \/ controls.page > 1 /\ Query([ controls EXCEPT !.page = @ - 1 ])
     \/ controls.page < Pages /\ Query([ controls EXCEPT !.page = @ + 1 ])

\* A voucher number is taken over after 350 ms without a key.
TypeVoucher ==
  /\ screen = "list" /\ ~ Overlaid
  /\ timer' = TRUE
  /\ UNCHANGED << screen, tables, controls, shown, busy, stray, asked, saving >>

\* Mutant: the check does not depend on the vehicle.
RestartsTimerButForVehicle(c) ==
  Complete(c) /\ (timer \/ [ controls EXCEPT !.vehicle = c.vehicle ] # c)

RestartsTimer(c) == Complete(c)

HasConflict == shown # None /\ shown.answer.conflict # {}

\* Every change in the dialog clears the timer of the check and starts it again
\* when there is something to check.
EditForm(c) ==
  /\ screen = "form" /\ controls.open /\ c \in Controls["form"] \ {controls}
  /\ controls' = c
  /\ timer' = RestartsTimer(c)
  /\ shown' = IF Complete(c) THEN shown ELSE None
  /\ saving' = Outlived
  /\ UNCHANGED << screen, tables, busy, stray, asked >>

ChangeTrip ==
  \E c \in Controls["form"] :
    EditForm([ controls EXCEPT !.startAt = c.startAt, !.endAt = c.endAt, !.tripType = c.tripType ])

\* From the lists of the dialog, or nothing.
ChooseResource ==
  \/ \E v \in Vehicles \cup {None} : EditForm([ controls EXCEPT !.vehicle = v ])
  \/ \E d \in Drivers \cup {None} : EditForm([ controls EXCEPT !.driver = d ])

\* One of the alternatives beside the conflicts.
TakeAlternative ==
  /\ HasConflict
  /\ \/ \E v \in shown.answer.vehicles : EditForm([ controls EXCEPT !.vehicle = v ])
     \/ \E d \in shown.answer.drivers : EditForm([ controls EXCEPT !.driver = d ])

\* edit: the dialog filled from a row.
FormOf(row) ==
  [ open |-> TRUE, editing |-> row.id, vehicle |-> row.vehicle, driver |-> row.driver,
    startAt |-> row.startAt, endAt |-> row.endAt, tripType |-> row.tripType ]

\* beginCreate and edit.  Only the first clears what an answer left there that
\* came after the dialog was closed.
OpenForm ==
  /\ screen = "form" /\ ~ controls.open
  /\ \/ controls' = [ EmptyForm EXCEPT !.open = TRUE ] /\ timer' = FALSE /\ shown' = None
     \/ /\ \E row \in Rows : FormOf(row) \in Controls["form"] /\ controls' = FormOf(row)
        /\ timer' = TRUE /\ shown' = shown
  /\ saving' = Outlived
  /\ UNCHANGED << screen, tables, busy, stray, asked >>

\* The cross and the backdrop close the dialog even while it saves.
CloseForm ==
  /\ screen = "form" /\ controls.open
  /\ controls' = EmptyForm
  /\ timer' = FALSE
  /\ shown' = None
  /\ saving' = Outlived
  /\ UNCHANGED << screen, tables, busy, stray, asked >>

\* The filters of the dashboard wait 250 ms for another.
ChangeDashboard ==
  /\ screen = "dashboard"
  /\ \E c \in Controls["dashboard"] \ {controls} : controls' = c
  /\ timer' = TRUE
  /\ UNCHANGED << screen, tables, shown, busy, stray, asked, saving >>

\* Another type of report drops the preview, and without one it is loaded.
ChangeReportType ==
  /\ screen = "reports"
  /\ \E c \in Controls["reports"] :
       c.type # controls.type /\ controls' = [ controls EXCEPT !.type = c.type ]
  /\ shown' = None
  /\ timer' = TRUE
  /\ saving' = Outlived
  /\ UNCHANGED << screen, tables, busy, stray, asked >>

\* The other filters wait for the button, while there is a preview.
ChangeReportFilters ==
  /\ screen = "reports"
  /\ \E c \in Controls["reports"] \ {controls} : c.type = controls.type /\ controls' = c
  /\ timer' = (timer \/ shown = None)
  /\ saving' = Outlived
  /\ UNCHANGED << screen, tables, shown, busy, stray, asked >>

\* The effect runs: the voucher filter leads back to the first page.
TimerFires ==
  /\ timer
  /\ controls' = IF screen = "list" THEN [ controls EXCEPT !.page = 1 ] ELSE controls
  /\ timer' = FALSE
  /\ Send(controls', FALSE)
  /\ busy' = TRUE
  /\ saving' = Outlived
  /\ UNCHANGED << screen, tables, shown, stray >>

Reload ==
  /\ Send(controls, FALSE)
  /\ busy' = TRUE
  /\ UNCHANGED << screen, tables, controls, timer, shown, stray, saving >>

\* The refresh buttons, which a load under way does not lock.
PressReload == screen \in {"list", "dashboard"} /\ ~ Overlaid /\ Reload

\* The preview button, which it does.
PressPreview == screen = "reports" /\ ~ busy /\ Reload

-----------------------------------------------------------------------------
(***************************************************************************)
(* Saves                                                                   *)
(***************************************************************************)
Start(about, target) ==
  saving' = [ NotSaving EXCEPT !.stage = "sent", !.about = about, !.target = target,
                               !.dialog = saving.dialog ]

\* The save is over; a question that is still open stays open.
Over == saving' = [ NotSaving EXCEPT !.dialog = saving.dialog ]

\* The save button of the dialog, for a form its schema accepts.
Submit ==
  /\ screen = "form" /\ Complete(controls)
  /\ controls.vehicle # None /\ controls.driver # None
  /\ saving.stage = "none" /\ ~ busy /\ ~ HasConflict
  /\ Start(controls, controls.editing)
  /\ UNCHANGED << screen, tables, panel, asked >>

\* Status changes and cancellations of the rows ask first.  (A row shown as
\* cancelled offers no cancellation; what the row shows may be stale.)
AskAction ==
  /\ screen = "list" /\ shown # None /\ ~ busy /\ ~ Overlaid
  /\ \E b \in shown.answer.items, kind \in {"status", "cancel"} :
       saving' = [ saving EXCEPT !.dialog = [ kind |-> kind, id |-> b ] ]
  /\ UNCHANGED << screen, tables, panel, asked >>

\* confirmStatusChange and confirmCancel; the button is locked while one runs.
Confirm ==
  /\ screen = "list" /\ Overlaid /\ saving.stage = "none"
  /\ Start(controls, saving.dialog)
  /\ UNCHANGED << screen, tables, panel, asked >>

\* The backdrop and Escape close the question even while its save runs.
Dismiss ==
  /\ Overlaid
  /\ saving' = [ saving EXCEPT !.dialog = None ]
  /\ UNCHANGED << screen, tables, panel, asked >>

\* The fleet pages save at once and leave every control usable meanwhile; a
\* second save before the answer is left out.
SaveVehicle ==
  /\ screen = "fleet" /\ Role = "ADMIN" /\ shown # None /\ saving.stage = "none"
  /\ \E v \in shown.answer.items : Start(controls, v)
  /\ UNCHANGED << screen, tables, panel, asked >>

Answered(answer, details) ==
  saving' = [ saving EXCEPT !.stage = "answered", !.answer = answer, !.details = details ]

FormRow(b, c) ==
  LET window == ResolveWindow(c.tripType, c.startAt, c.endAt, Settings) IN
  [ id |-> b, vehicle |-> c.vehicle, driver |-> c.driver, startAt |-> c.startAt,
    endAt |-> c.endAt, from |-> window.from, to |-> window.to, tripType |-> c.tripType,
    status |-> IF bookings[b] = None THEN "DRAFT" ELSE bookings[b].status, cost |-> 0 ]

\* The availability results that may be in the details of a 409.
FullAnswers(about) ==
  WithAlternatives([ NoAnswer EXCEPT !.conflict = ConflictKinds(about, Settings, Rows) ], about, 0)

\* assertBookableResources
Bookable(v) ==
  ~ vehicles[v].deleted /\ vehicles[v].status \notin {"INACTIVE", "MAINTENANCE", "OUT_OF_SERVICE"}

\* What the handlers ask of the vehicle and of the status before the conflicts.
Acceptable(c) ==
  /\ Bookable(c.vehicle)
  /\ c.editing # None => EditableByRole(bookings[c.editing].status, Role)

\* createBooking and updateBooking, whole: 400, 409 with details, or a commit.
ServeSubmit ==
  LET c == saving.about IN
  /\ screen = "form" /\ saving.stage = "sent"
  /\ \E b \in IF c.editing = None THEN { x \in BookingIds : bookings[x] = None } ELSE {c.editing} :
       \/ /\ Acceptable(c) /\ ConflictKinds(c, Settings, Rows) = {}
          /\ Commit([ bookings EXCEPT ![b] = FormRow(b, c) ], vehicles)
          /\ Answered("200", NoAnswer)
       \/ /\ Acceptable(c) /\ ConflictKinds(c, Settings, Rows) # {}
          /\ \E details \in FullAnswers(c) : Answered("409", details)
          /\ UNCHANGED << screen, tables, panel, asked >>
       \/ /\ ~ Acceptable(c)
          /\ Answered("refused", NoAnswer)
          /\ UNCHANGED << screen, tables, panel, asked >>

\* updateBookingStatus and cancelBooking: a status the user's role may choose, or
\* refused.
ServeStatus ==
  LET row == bookings[saving.target.id] IN
  /\ screen = "list" /\ saving.stage = "sent"
  /\ \/ \E to \in IF saving.target.kind = "cancel" THEN {"CANCELLED"} ELSE BookingStatuses :
          /\ TransitionAllowed(row.status, to, Role) /\ Free([ row EXCEPT !.status = to ])
          /\ Commit([ bookings EXCEPT ![row.id].status = to ], vehicles)
          /\ Answered("200", NoAnswer)
     \/ /\ Answered("refused", NoAnswer)
        /\ UNCHANGED << screen, tables, panel, asked >>

\* updateVehicleStatus and deleteVehicle, or 404; the columns updateVehicle
\* writes are not told apart here.
ServeVehicle ==
  LET v == saving.target IN
  /\ screen = "fleet" /\ saving.stage = "sent"
  /\ \/ /\ ~ vehicles[v].deleted
        /\ \/ \E to \in {"AVAILABLE", "MAINTENANCE"} :
                Commit(bookings, [ vehicles EXCEPT ![v].status = to ])
           \/ Commit(bookings, Retired(v))
        /\ Answered("200", NoAnswer)
     \/ /\ vehicles[v].deleted
        /\ Answered("refused", NoAnswer)
        /\ UNCHANGED << screen, tables, panel, asked >>

\* The save was done: the dialog closes, whatever it was opened for meanwhile.
DeliverBooked ==
  /\ screen = "form" /\ saving.stage = "answered" /\ saving.answer = "200"
  /\ controls' = EmptyForm /\ timer' = FALSE /\ shown' = None
  /\ saving' = NotSaving
  /\ UNCHANGED << screen, tables, asked, busy, stray >>

\* A list closes the question of that kind and loads again, with the query of
\* the moment the save was started.
DeliverSaved ==
  /\ screen \in {"list", "fleet"} /\ saving.stage = "answered" /\ saving.answer = "200"
  /\ saving' = [ NotSaving EXCEPT !.dialog =
       IF Overlaid /\ saving.dialog.kind # saving.target.kind THEN saving.dialog ELSE None ]
  /\ Send(saving.about, saving.outlived)
  /\ busy' = TRUE
  /\ UNCHANGED << screen, tables, controls, timer, shown, stray >>

\* 409: the conflicts take the place of the last check.
DeliverConflict ==
  /\ saving.stage = "answered" /\ saving.answer = "409"
  /\ shown' = [ about |-> saving.about, answer |-> saving.details, changed |-> TRUE ]
  /\ stray' = saving.outlived
  /\ saving' = NotSaving
  /\ UNCHANGED << screen, tables, controls, timer, busy, asked >>

\* Any other error, or no answer, be the save done or not: a message over what
\* is shown.
DeliverRefused ==
  /\ screen # "reports" /\ saving.stage \in {"sent", "answered"}
  /\ Over
  /\ UNCHANGED << screen, tables, panel, asked >>

-----------------------------------------------------------------------------
(***************************************************************************)
(* Exports                                                                 *)
(***************************************************************************)
AskExport ==
  /\ screen = "reports" /\ shown # None /\ saving.stage = "none"
  /\ sent < MaxRequests[screen] /\ sent' = sent + 1
  /\ Start(controls, None)
  /\ UNCHANGED << screen, tables, panel, requests >>

\* generateReport and the exporters, after assertPermission.
GenerateExport ==
  /\ screen = "reports" /\ saving.stage = "sent"
  /\ Permitted(saving.about.type, Role)
  /\ saving' = [ saving EXCEPT !.stage = "generated" ]
  /\ UNCHANGED << screen, tables, panel, asked >>

\* auditReportExport: entityId is a column of uuids and gets the type of the
\* report, so the insert is refused, the handler answers 500, and the file that
\* was generated does not leave.  res.send is never reached.
RefuseExport ==
  /\ saving.stage = "generated"
  /\ Over
  /\ UNCHANGED << screen, tables, panel, asked >>

\* No permission; or a font, the database or the connection fails on the way.
FailExport ==
  /\ screen = "reports" /\ saving.stage = "sent"
  /\ Over
  /\ UNCHANGED << screen, tables, panel, asked >>

-----------------------------------------------------------------------------

\* A list loads when it is mounted, and again when the timer of its voucher
\* filter runs out.
Init ==
  /\ \E s \in Starts : screen = s.screen /\ bookings = s.bookings /\ controls = s.controls
  /\ vehicles = [ v \in Vehicles |-> [ status |-> "AVAILABLE", deleted |-> FALSE, seats |-> Seats[v] ] ]
  /\ commits = 0
  /\ timer = (screen \in {"list", "dashboard", "reports"})
  /\ requests = [ r \in Slots |->
       IF screen \in {"list", "fleet"} /\ r = 1
       THEN [ IdleRequest EXCEPT !.about = controls, !.waiting = Statements[screen] ]
       ELSE IdleRequest ]
  /\ sent = IF screen \in {"list", "fleet"} THEN 1 ELSE 0
  /\ shown = None
  /\ busy = (screen \in {"list", "fleet"})
  /\ saving = NotSaving
  /\ stray = FALSE

Elsewhere == BookElsewhere \/ ChangeElsewhere \/ VehicleElsewhere

User ==
  \/ ChangeFilter \/ TurnPage \/ TypeVoucher
  \/ ChangeTrip \/ ChooseResource \/ TakeAlternative \/ OpenForm \/ CloseForm
  \/ ChangeDashboard \/ ChangeReportType \/ ChangeReportFilters \/ TimerFires
  \/ PressReload \/ PressPreview
  \/ Submit \/ AskAction \/ Confirm \/ Dismiss \/ SaveVehicle \/ AskExport

Saves ==
  \/ ServeSubmit \/ ServeStatus \/ ServeVehicle \/ DeliverBooked \/ DeliverSaved
  \/ DeliverConflict \/ DeliverRefused
  \/ GenerateExport \/ RefuseExport \/ FailExport

Next == Elsewhere \/ User \/ Saves \/ \E r \in Slots : Serve(r) \/ Deliver(r) \/ Fail(r)

Spec == Init /\ [][Next]_vars

-----------------------------------------------------------------------------
(***************************************************************************)
(* Properties                                                              *)
(***************************************************************************)
\* The state of the screen and of the tables under it has the types of the code.
TypeOK ==
  /\ screen \in Screens
  /\ \A b \in BookingIds : bookings[b] # None => bookings[b] \in RowRecords /\ bookings[b].id = b
  /\ \A v \in Vehicles : vehicles[v].deleted => vehicles[v].status = "INACTIVE"
  /\ controls \in Controls[screen] \cup {EmptyForm}
  /\ timer \in BOOLEAN /\ busy \in BOOLEAN /\ stray \in BOOLEAN
  /\ \A r \in Slots :
       /\ requests[r].waiting \subseteq Statements[screen]
       /\ requests[r].answer \in AnswerRecords
       /\ requests[r].before \subseteq Slots \ {r}
  /\ shown # None => shown.answer \in AnswerRecords

\* The first three properties are about the tables, whatever is on the screen:
\* they are asked where no screen is open.
NoFilter == [ status |-> Any, tripType |-> Any ]

\* A vehicle that has a row in the timeline is busy there over a trip's window
\* exactly when the availability check finds it taken, for every trip somebody
\* may ask about: getVehicleTimeline and checkBookingConflicts use the same
\* half-open windows.  Only where more bookings meet the window than the
\* timeline takes may the check know of one that the timeline does not show.
TimelineTellsConflicts ==
  screen = "closed" =>
    \A ask \in Asks :
      LET window == ResolveWindow(ask.tripType, ask.startAt, ask.endAt, Settings) IN
      Complete(ask) =>
        \A listed \in TimelineVehicles(Any, vehicles), bars \in Bars(NoFilter, window, Rows) :
          \A v \in listed :
            LET taken == "vehicle" \in ConflictKinds([ ask EXCEPT !.vehicle = v ], Settings, Rows)
                busyRow == \E row \in TimelineRow(v, bars) : Blocking(row) /\ row.id # ask.editing IN
            /\ busyRow => taken
            /\ taken => busyRow \/ Cardinality(OverlapsWindow(window, Rows)) > Limits.bars

\* Whatever pair of the alternatives the check offers the user takes, the
\* save that follows is accepted, as long as nobody committed in between.
AlternativesBookable ==
  screen = "closed" => \A ask \in Asks :
    Complete(ask) =>
      \A free \in AlternativeVehicles(ask, 0, Settings, Rows, vehicles),
         idle \in AlternativeDrivers(ask, Settings, Rows, DriverRows) :
        \A v \in free, d \in idle :
          LET taken == [ ask EXCEPT !.vehicle = v, !.driver = d ] IN
          Bookable(v) /\ ConflictKinds(taken, Settings, Rows) = {}

SumOver(S, f(_)) == MapThenSumSet(f, S)

\* The daily report of the whole period, and of one of its days.
Reported(type) == BookingRows(type, NoFilter, Period, Rows)
OfDay(day) == BookingRows("daily-bookings", NoFilter, [ from |-> day, to |-> day + 1 ], Rows)
Days == Period.from..(Period.to - 1)

\* The daily reports of two days show no booking twice, and what the report of
\* the period shows is in that of one of its days, unless that has all the rows
\* a report may have.
DaysAddUp ==
  /\ \A x, y \in Days : x # y => \A one \in OfDay(x), other \in OfDay(y) : one \cap other = {}
  /\ \A daily \in Reported("daily-bookings") : \A row \in daily :
       \E day \in Days : \A one \in OfDay(day) : row \in one \/ Cardinality(one) = Limits.reportRows

\* The utilization report counts the bookings that the daily report shows and
\* the cancelled report does not, and the cost report adds up the nights that
\* the daily report shows, unless one of them has reached its limits.
CountsAgree ==
  \A daily \in Reported("daily-bookings") : Cardinality(daily) < Limits.reportRows =>
    /\ \A cancelled \in Reported("cancelled-bookings"), used \in Utilization(NoFilter, Period, Rows, vehicles) :
         Cardinality(InService(vehicles)) <= Limits.reportVehicles =>
           SumOver(DOMAIN used, LAMBDA v : used[v].bookingCount)
             = Cardinality({ row \in daily \ cancelled : row.vehicle \in InService(vehicles) })
    /\ \A overnight \in Reported("overnight-driver-costs") :
         TotalDriverCost(overnight) = TotalDriverCost({ row \in daily : row.tripType = "OVERNIGHT" })

\* What the daily report shows for a vehicle has a bar in its row of the
\* timeline over the same days, unless the timeline has all the bars it may.
ReportedHaveBars ==
  \A daily \in Reported("daily-bookings"), bars \in Bars(NoFilter, Period, Rows) :
    daily \subseteq bars \/ Cardinality(bars) = Limits.bars

\* The reports agree with one another and with the timeline, as far as the rows
\* go that each of them takes: bookingRows, vehicleUtilizationRows, totalsFor
\* and getVehicleTimeline choose their bookings by where clauses of their own.
ReportsAgree == screen = "closed" => DaysAddUp /\ CountsAgree /\ ReportedHaveBars

\* An answer whose statements nobody committed between adds up, though each of
\* them has a limit of its own.  A page is full unless it is the last one.  The
\* dispatch list has as many bookings as the card counts, up to its limit; a
\* bar is in the row of a vehicle that is listed, unless that vehicle is
\* deleted, has not the status asked for, or the rows are all taken.  A vehicle
\* or driver in conflict is no alternative, and one that is available and in no
\* conflict is one, unless the list of them is full.
UntornAnswersAddUp ==
  \A r \in InFlight :
    LET q == requests[r]
        a == q.answer
        v == q.about.vehicle
        d == q.about.driver IN
    q.waiting = {} /\ ~ q.changed =>
      /\ screen \in {"list", "fleet"} =>
           LET left == a.total - (q.about.page - 1) * PageSize IN
           Cardinality(a.items) = Min({PageSize, Max({0, left})})
      /\ screen = "dashboard" =>
           /\ Cardinality(a.items) = Min({Limits.dispatch, a.total})
           /\ \A bar \in a.bars :
                \/ bar[2] \in a.vehicles \/ Cardinality(a.vehicles) = Limits.timelineVehicles
                \/ vehicles[bar[2]].deleted
                \/ q.about.vehicleStatus \notin {Any, vehicles[bar[2]].status}
      /\ screen = "form" =>
           /\ v # None /\ vehicles[v].status = "AVAILABLE" =>
                IF "vehicle" \in a.conflict THEN v \notin a.vehicles
                ELSE v \in a.vehicles \/ Cardinality(a.vehicles) = Limits.alternatives
           /\ d # None =>
                IF "driver" \in a.conflict THEN d \notin a.drivers
                ELSE d \in a.drivers \/ Cardinality(a.drivers) = Limits.alternatives

\* When nothing is pending any more, the answer on the screen belongs to the
\* controls beside it, unless an answer that came out of order or failed was
\* the last: the check of the dialog, the page of a list, the dashboard.
ScreenFollowsControls ==
  /\ screen \in {"list", "fleet", "dashboard", "form"} /\ (screen = "form" => Complete(controls))
  /\ ~ timer /\ InFlight = {} /\ saving.stage = "none" /\ shown # None /\ ~ stray
  => shown.about = controls

\* What the bookings hold: a cancelled one holds nothing.
Held ==
  [ b \in BookingIds |->
      IF bookings[b] = None \/ ~ Blocking(bookings[b]) THEN None
      ELSE [ vehicle |-> bookings[b].vehicle, driver |-> bookings[b].driver,
             from |-> bookings[b].from, to |-> bookings[b].to ] ]

Calendar == INSTANCE Reservations WITH Nothing <- None, held <- Held

\* Whatever a screen shows and whoever saves, the bookings under it change only
\* as the calendar allows that the booking service is proved to implement.
KeepsToCalendar == [][bookings' # bookings => Calendar!Next]_vars

\* "Daily booking report preview matches bookings": a preview shows the trips
\* of its days with the status asked for, the overnight trips alone only when
\* the user asked for those.
PreviewMatchesBookings ==
  screen = "reports" /\ shown # None /\ ~ shown.changed /\ shown.about.type = "daily-bookings" =>
    shown.answer.items =
      { row.id : row \in { row \in StartingIn(Period, Rows) :
          /\ shown.about.status \in {Any, row.status}
          /\ shown.about.overnightOnly => row.tripType = "OVERNIGHT" } }

=============================================================================
