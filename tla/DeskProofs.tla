------------------------------ MODULE DeskProofs ------------------------------
(***************************************************************************)
(* What Desk does for every set of bookings, vehicles and requests.        *)
(*                                                                         *)
(* Three inductive invariants.  TypeInv types the screen, and says that    *)
(* what is listed or saved exists.  FollowInv orders the requests under    *)
(* way: the newest of them is for the controls, and so is what is shown    *)
(* once the last has ended.  UntornIsCurrent says that what a request has  *)
(* read is what the tables say now, unless somebody committed meanwhile.   *)
(* The invariants on the operators of Queries follow from the types; the   *)
(* last theorem is about steps, and the calendar of Reservations.          *)
(***************************************************************************)
EXTENDS Desk, FiniteSetTheorems, TLAPS

-----------------------------------------------------------------------------
(***************************************************************************)
(* The types                                                               *)
(***************************************************************************)
SettableOn(s) == Controls[s] \cup IF s = "form" THEN {EmptyForm} ELSE {}

RequestsOn(s) ==
  [ about : SettableOn(s) \cup {None}, waiting : SUBSET Statements[s], answer : AnswerRecords,
    changed : BOOLEAN, late : BOOLEAN, before : SUBSET Slots ]

ShownOn(s) == [ about : SettableOn(s), answer : AnswerRecords, changed : BOOLEAN ]

Questions == [ kind : {"status", "cancel"}, id : BookingIds \cup Vehicles ]

SavingsOn(s) ==
  [ stage : {"none", "sent", "answered", "generated"}, about : SettableOn(s) \cup {None},
    target : BookingIds \cup Vehicles \cup Questions \cup {None}, outlived : BOOLEAN,
    answer : {"none", "200", "409", "refused"}, details : AnswerRecords,
    dialog : Questions \cup {None} ]

VehicleRecords ==
  [ status : {"AVAILABLE", "MAINTENANCE", "INACTIVE"}, deleted : BOOLEAN, seats : Nat ]

Booked(books) ==
  /\ books \in [ BookingIds -> RowRecords \cup {None} ]
  /\ \A b \in BookingIds : books[b] # None => books[b].id = b /\ Covers(books[b])

Garage(fleet) ==
  /\ fleet \in [ Vehicles -> VehicleRecords ]
  /\ \A v \in Vehicles : fleet[v].seats = Seats[v]
  /\ \A v \in Vehicles : fleet[v].deleted => fleet[v].status = "INACTIVE"

ScreenOK == screen \in Screens
TablesOK == Booked(bookings) /\ Garage(vehicles)
ControlsOK == controls \in SettableOn(screen) /\ timer \in BOOLEAN /\ busy \in BOOLEAN /\ stray \in BOOLEAN
RequestsOK == requests \in [ Slots -> RequestsOn(screen) ]
ShownOK == shown \in ShownOn(screen) \cup {None}

\* What is being saved was on the screen.
SavingOK ==
  /\ saving \in SavingsOn(screen)
  /\ saving.stage # "none" => saving.about # None
  /\ screen = "form" /\ saving.stage = "sent" =>
       /\ saving.about.vehicle # None /\ saving.about.driver # None
       /\ saving.about.endAt > saving.about.startAt

\* The bookings that a list names exist: a booking is cancelled, never removed.
Exists(b) == b \in BookingIds /\ bookings[b] # None
RequestsNamed == screen = "list" => \A r \in Slots : \A b \in requests[r].answer.items : Exists(b)
ShownNamed == screen = "list" /\ shown # None => \A b \in shown.answer.items : Exists(b)
SavingNamed ==
  screen = "list" =>
    /\ saving.details.items = {}
    /\ saving.dialog # None => Exists(saving.dialog.id)
    /\ saving.stage # "none" => saving.target # None /\ Exists(saving.target.id)

TypeInv ==
  /\ ScreenOK /\ TablesOK /\ ControlsOK
  /\ RequestsOK /\ RequestsNamed
  /\ ShownOK /\ ShownNamed
  /\ SavingOK /\ SavingNamed

-----------------------------------------------------------------------------
(***************************************************************************)
(* The order of the requests                                               *)
(***************************************************************************)
Settled ==
  screen \in {"list", "fleet", "dashboard", "form"} /\ (screen = "form" => Complete(controls))

\* Of two requests under way one was sent before the other.
Ordered ==
  /\ \A r \in Slots : requests[r].before \subseteq InFlight \ {r}
  /\ \A q, r \in InFlight : q # r => q \in requests[r].before \/ r \in requests[q].before

Newest(r) == InFlight \ {r} \subseteq requests[r].before

NewestIsCurrent ==
  \A r \in InFlight :
    Newest(r) /\ ~ requests[r].late /\ ~ timer /\ Settled => requests[r].about = controls

SaveIsCurrent ==
  saving.stage # "none" =>
    screen # "dashboard" /\ (~ saving.outlived => saving.about = controls)

ShownIsCurrent ==
  InFlight = {} /\ ~ timer /\ Settled /\ shown # None /\ ~ stray => shown.about = controls

FollowInv == Ordered /\ NewestIsCurrent /\ SaveIsCurrent /\ ShownIsCurrent

-----------------------------------------------------------------------------
(***************************************************************************)
(* What an untorn answer says of the tables                                *)
(***************************************************************************)
ListRows(about) == Matching([ status |-> about.status ], Rows)
FleetRows(about) == InServiceWith(about.status, vehicles)
SeatsFor(about) == IF about.vehicle = None THEN 0 ELSE Seats[about.vehicle]

Current(statement, about, a) ==
  /\ screen = "list" =>
       /\ statement = "total" => a.total = Cardinality(ListRows(about))
       /\ statement = "items" =>
            \E s \in Orders(ListRows(about)) : a.items = Ids(PageOf(s, about.page, PageSize))
  /\ screen = "fleet" =>
       /\ statement = "total" => a.total = Cardinality(FleetRows(about))
       /\ statement = "items" =>
            \E s \in Listings(FleetRows(about)) : a.items = PageOf(s, about.page, PageSize)
  /\ screen = "form" =>
       /\ statement = "conflict" => a.conflict = ConflictKinds(about, Settings, Rows)
       /\ statement = "alternatives" =>
            /\ a.vehicles \in AlternativeVehicles(about, SeatsFor(about), Settings, Rows, vehicles)
            /\ a.drivers \in AlternativeDrivers(about, Settings, Rows, DriverRows)
  /\ screen = "dashboard" =>
       /\ statement = "total" => a.total = Cardinality(TodaysBookings(Today, Rows))
       /\ statement = "items" => \E listed \in TodaysDispatch(Today, Rows) : a.items = Ids(listed)
       /\ statement = "vehicles" => a.vehicles \in TimelineVehicles(about.vehicleStatus, vehicles)
       /\ statement = "bars" => \A bar \in a.bars : bar[2] \in Vehicles

UntornIsCurrent ==
  \A r \in InFlight : ~ requests[r].changed =>
    \A statement \in Statements[screen] \ requests[r].waiting :
      Current(statement, requests[r].about, requests[r].answer)

-----------------------------------------------------------------------------
(***************************************************************************)
(* Steps of the types, variable by variable                                *)
(***************************************************************************)
LEMMA SettingsAreNotNone == \A s \in Screens : None \notin SettableOn(s)
  BY DeskAssumption DEF SettableOn, Screens

LEMMA FormsAreRecords == SettableOn("form") \subseteq FormRecords
  <1>1. EmptyForm \in FormRecords
    BY DEF EmptyForm, FormRecords, TripTypes
  <1> QED
    BY <1>1, DeskAssumption DEF SettableOn

LEMMA NoAnswerIsOne == NoAnswer \in AnswerRecords
  <1>1. 0 \in Totals
    <2>1. Cardinality(BookingIds) \in Nat /\ Cardinality(Vehicles) \in Nat
      BY DeskAssumption, FS_CardinalityType
    <2> QED
      BY <2>1 DEF Totals, Max
  <1> QED
    BY <1>1 DEF NoAnswer, AnswerRecords

TablesStep ==
  /\ screen' = screen
  /\ Booked(bookings') /\ Garage(vehicles')
  /\ \A b \in BookingIds : bookings[b] # None => bookings'[b] # None
ControlsStep ==
  controls' \in SettableOn(screen) /\ timer' \in BOOLEAN /\ busy' \in BOOLEAN /\ stray' \in BOOLEAN
RequestsStep ==
  /\ requests' \in [ Slots -> RequestsOn(screen) ]
  /\ screen = "list" => \A r \in Slots : \A b \in requests'[r].answer.items : Exists(b)
ShownStep ==
  /\ shown' \in ShownOn(screen) \cup {None}
  /\ screen = "list" /\ shown' # None => \A b \in shown'.answer.items : Exists(b)
Savable(s) ==
  /\ s \in SavingsOn(screen)
  /\ s.stage # "none" => s.about # None
  /\ screen = "form" /\ s.stage = "sent" =>
       /\ s.about.vehicle # None /\ s.about.driver # None
       /\ s.about.endAt > s.about.startAt
  /\ screen = "list" =>
       /\ s.details.items = {}
       /\ s.dialog # None => Exists(s.dialog.id)
       /\ s.stage # "none" => s.target # None /\ Exists(s.target.id)

LEMMA TypedStep ==
  ASSUME TypeInv, TablesStep, ControlsStep, RequestsStep, ShownStep, Savable(saving')
  PROVE  TypeInv'
  <1>1. \A b : Exists(b) => Exists(b)'
    BY DEF TablesStep, Exists
  <1>2. ScreenOK' /\ TablesOK' /\ ControlsOK'
    BY DEF TypeInv, ScreenOK, TablesStep, TablesOK, ControlsStep, ControlsOK
  <1>3. RequestsOK' /\ RequestsNamed'
    BY <1>1 DEF TablesStep, RequestsStep, RequestsOK, RequestsNamed
  <1>4. ShownOK' /\ ShownNamed'
    BY <1>1 DEF TablesStep, ShownStep, ShownOK, ShownNamed
  <1>5. SavingOK' /\ SavingNamed'
    BY <1>1 DEF TablesStep, Savable, SavingOK, SavingNamed
  <1> QED
    BY <1>2, <1>3, <1>4, <1>5 DEF TypeInv

\* A variable that a step leaves alone keeps its type.
LEMMA Untouched ==
  ASSUME TypeInv
  PROVE  /\ screen' = screen /\ bookings' = bookings /\ vehicles' = vehicles => TablesStep
         /\ controls' \in SettableOn(screen) /\ timer' \in BOOLEAN /\ busy' \in BOOLEAN
              /\ stray' \in BOOLEAN => ControlsStep
         /\ UNCHANGED << controls, timer, busy, stray >> => ControlsStep
         /\ requests' = requests => RequestsStep
         /\ shown' = shown \/ shown' = None => ShownStep
         /\ saving' = saving => Savable(saving')
  <1>1. Savable(saving)
    BY DEF TypeInv, SavingOK, SavingNamed, Savable
  <1>2. saving' = saving => Savable(saving')
    BY <1>1
  <1>3. screen' = screen /\ bookings' = bookings /\ vehicles' = vehicles => TablesStep
    BY DEF TypeInv, TablesOK, TablesStep
  <1>4. UNCHANGED << controls, timer, busy, stray >> => ControlsStep
    BY DEF TypeInv, ControlsOK, ControlsStep
  <1>5. requests' = requests => RequestsStep
    BY DEF TypeInv, RequestsOK, RequestsNamed, RequestsStep
  <1>6. shown' = shown \/ shown' = None => ShownStep
    BY DEF TypeInv, ShownOK, ShownNamed, ShownStep
  <1> QED
    BY <1>2, <1>3, <1>4, <1>5, <1>6 DEF ControlsStep

LEMMA CommitTyped ==
  ASSUME TypeInv, NEW books, NEW fleet, Commit(books, fleet), Booked(books), Garage(fleet),
         \A b \in BookingIds : bookings[b] # None => books[b] # None
  PROVE  TablesStep /\ ControlsStep /\ RequestsStep /\ ShownStep
  <1>1. TablesStep /\ ControlsStep
    BY DEF Commit, TablesStep, ControlsStep, TypeInv, ControlsOK
  <1>2. RequestsStep
    <2>1. ASSUME NEW r \in Slots
          PROVE  requests'[r] \in RequestsOn(screen) /\ requests'[r].answer = requests[r].answer
      <3>1. requests[r] \in RequestsOn(screen)
        BY DEF TypeInv, RequestsOK
      <3>2. \E c \in BOOLEAN : requests'[r] = [ requests[r] EXCEPT !.changed = c ]
        BY <3>1 DEF Commit, RequestsOn
      <3> QED
        BY <3>1, <3>2 DEF RequestsOn
    <2>2. DOMAIN requests' = Slots /\ requests' = [ r \in Slots |-> requests'[r] ]
      BY DEF Commit
    <2> QED
      BY <2>1, <2>2 DEF RequestsStep, TypeInv, RequestsNamed
  <1>3. ShownStep
    BY DEF Commit, ShownStep, TypeInv, ShownOK, ShownNamed, ShownOn
  <1> QED
    BY <1>1, <1>2, <1>3
LEMMA FreeSlotIsFree == InFlight # Slots => FreeSlot \in Slots \ InFlight
  BY DEF FreeSlot, InFlight

LEMMA SendTyped ==
  ASSUME TypeInv, NEW about \in SettableOn(screen), NEW late \in BOOLEAN, Send(about, late)
  PROVE  RequestsStep
  <1>1. PICK sending : sending = [ IdleRequest EXCEPT !.about = about, !.waiting = Statements[screen],
                                     !.late = late, !.before = InFlight ]
    OBVIOUS
  <1>2. sending \in RequestsOn(screen) /\ sending.answer.items = {}
    BY <1>1, NoAnswerIsOne DEF IdleRequest, RequestsOn, InFlight, NoAnswer
  <1>3. requests' = [ requests EXCEPT ![FreeSlot] = sending ]
    BY <1>1 DEF Send
  <1> QED
    BY <1>2, <1>3 DEF TypeInv, RequestsOK, RequestsNamed, RequestsStep

LEMMA EndedTyped ==
  ASSUME TypeInv, NEW r \in Slots, requests' = Ended(r)
  PROVE  RequestsStep
  <1>1. IdleRequest \in RequestsOn(screen) /\ IdleRequest.answer.items = {}
    BY NoAnswerIsOne DEF IdleRequest, RequestsOn, NoAnswer
  <1>2. ASSUME NEW q \in Slots
        PROVE  /\ requests'[q] \in RequestsOn(screen)
               /\ requests'[q].answer = requests[q].answer \/ requests'[q].answer.items = {}
    <2>1. requests[q] \in RequestsOn(screen)
      BY DEF TypeInv, RequestsOK
    <2>2. CASE q = r
      BY <2>2, <1>1 DEF Ended
    <2>3. CASE q # r
      <3>1. PICK late, before :
              /\ late = (requests[q].late \/ q \in requests[r].before)
              /\ before = requests[q].before \ {r}
        OBVIOUS
      <3>2. requests'[q] = [ requests[q] EXCEPT !.late = late, !.before = before ]
        BY <2>3, <3>1 DEF Ended
      <3>3. late \in BOOLEAN /\ before \subseteq Slots
        BY <2>1, <3>1 DEF RequestsOn
      <3> QED
        BY <2>1, <3>2, <3>3 DEF RequestsOn
    <2> QED
      BY <2>2, <2>3
  <1>3. requests' = [ q \in Slots |-> requests'[q] ]
    BY DEF Ended
  <1> QED
    BY <1>2, <1>3 DEF RequestsStep, TypeInv, RequestsNamed

LEMMA OutlivedTyped ==
  ASSUME TypeInv, saving' = Outlived
  PROVE  Savable(saving')
  <1>1. saving \in SavingsOn(screen) /\ Savable(saving)
    BY Untouched DEF TypeInv, SavingOK, SavingNamed, Savable
  <1>2. PICK o \in BOOLEAN : o = (saving.stage # "none")
    OBVIOUS
  <1>3. saving' = [ saving EXCEPT !.outlived = o ]
    BY <1>2 DEF Outlived
  <1> QED
    BY <1>1, <1>3 DEF SavingsOn, Savable

\* A save that ends, with the question that stays open.
LEMMA OverTyped ==
  ASSUME TypeInv, NEW dialog \in {saving.dialog, None}, saving' = [ NotSaving EXCEPT !.dialog = dialog ]
  PROVE  Savable(saving')
  BY NoAnswerIsOne DEF TypeInv, SavingOK, SavingNamed, SavingsOn, Savable, NotSaving, NoAnswer

LEMMA StartTyped ==
  ASSUME TypeInv, NEW about \in SettableOn(screen), about # None,
         NEW target \in BookingIds \cup Vehicles \cup Questions \cup {None},
         Start(about, target),
         screen = "form" =>
           /\ about.vehicle # None /\ about.driver # None
           /\ about.endAt > about.startAt,
         screen = "list" => target # None /\ Exists(target.id)
  PROVE  Savable(saving')
  <1>1. saving.dialog \in Questions \cup {None}
    BY DEF TypeInv, SavingOK, SavingsOn
  <1> QED
    BY <1>1, NoAnswerIsOne
    DEF Start, TypeInv, SavingOK, SavingNamed, SavingsOn, Savable, NotSaving, NoAnswer

LEMMA AnsweredTyped ==
  ASSUME TypeInv, NEW answer \in {"200", "409", "refused"}, NEW details \in AnswerRecords,
         Answered(answer, details), saving.stage = "sent", screen = "list" => details.items = {}
  PROVE  Savable(saving')
  BY DEF Answered, TypeInv, SavingOK, SavingNamed, SavingsOn, Savable
-----------------------------------------------------------------------------
(***************************************************************************)
(* The tables                                                              *)
(***************************************************************************)
LEMMA RowsAreBookings ==
  ASSUME TypeInv, NEW row \in Rows
  PROVE  row \in RowRecords /\ row.id \in BookingIds /\ row = bookings[row.id] /\ Covers(row)
  BY DEF TypeInv, TablesOK, Booked, Rows

LEMMA OneBooked ==
  ASSUME TypeInv, NEW b \in BookingIds, NEW row \in RowRecords, row.id = b, Covers(row)
  PROVE  /\ Booked([ bookings EXCEPT ![b] = row ])
         /\ \A x \in BookingIds : bookings[x] # None => [ bookings EXCEPT ![b] = row ][x] # None
  BY DeskAssumption DEF TypeInv, TablesOK, Booked

LEMMA OneRestated ==
  ASSUME TypeInv, NEW b, Exists(b), NEW to \in BookingStatuses
  PROVE  /\ Booked([ bookings EXCEPT ![b].status = to ])
         /\ \A x \in BookingIds : bookings[x] # None => [ bookings EXCEPT ![b].status = to ][x] # None
  <1>1. PICK row : row = [ bookings[b] EXCEPT !.status = to ]
    OBVIOUS
  <1>2. bookings[b] \in RowRecords /\ bookings[b].id = b /\ Covers(bookings[b]) /\ b \in BookingIds
    BY DEF TypeInv, TablesOK, Booked, Exists
  <1>3. row \in RowRecords /\ row.id = b /\ Covers(row)
    BY <1>1, <1>2 DEF RowRecords, Covers
  <1>4. [ bookings EXCEPT ![b].status = to ] = [ bookings EXCEPT ![b] = row ]
    BY <1>1
  <1> QED
    BY <1>2, <1>3, <1>4, OneBooked

LEMMA OneVehicle ==
  ASSUME TypeInv, NEW v
  PROVE  /\ Garage(vehicles) /\ Garage(Retired(v))
         /\ \A to \in {"AVAILABLE", "MAINTENANCE"} :
              ~ vehicles[v].deleted => Garage([ vehicles EXCEPT ![v].status = to ])
  <1>1. Garage(vehicles)
    BY DEF TypeInv, TablesOK
  <1>2. Garage(Retired(v))
    BY <1>1 DEF Garage, Retired, VehicleRecords
  <1>3. ASSUME NEW to \in {"AVAILABLE", "MAINTENANCE"}, ~ vehicles[v].deleted
        PROVE  Garage([ vehicles EXCEPT ![v].status = to ])
    BY <1>1, <1>3 DEF Garage, VehicleRecords
  <1> QED
    BY <1>1, <1>2, <1>3

LEMMA Unchanged ==
  ASSUME TypeInv
  PROVE  Booked(bookings) /\ \A b \in BookingIds : bookings[b] # None => bookings[b] # None
  BY DEF TypeInv, TablesOK

LEMMA ElsewhereTyped ==
  ASSUME TypeInv, Elsewhere
  PROVE  TypeInv'
  <1>1. CASE BookElsewhere
    <2>1. PICK b \in BookingIds, new \in NewRows :
            /\ Commit([ bookings EXCEPT ![b] = [ new EXCEPT !.id = b ] ], vehicles)
            /\ saving' = saving
      BY <1>1 DEF BookElsewhere
    <2>2. PICK row : row = [ new EXCEPT !.id = b ]
      OBVIOUS
    <2>3. row \in RowRecords /\ row.id = b /\ Covers(row)
      BY <2>2, DeskAssumption DEF RowRecords, Covers
    <2>4. Commit([ bookings EXCEPT ![b] = row ], vehicles)
      BY <2>1, <2>2
    <2> QED
      BY <2>1, <2>3, <2>4, OneBooked, OneVehicle, CommitTyped, Untouched, TypedStep
  <1>2. CASE ChangeElsewhere
    <2>1. PICK row \in Rows, to \in {"CONFIRMED", "CANCELLED"} :
            Commit([ bookings EXCEPT ![row.id].status = to ], vehicles) /\ saving' = saving
      BY <1>2 DEF ChangeElsewhere
    <2>2. Exists(row.id) /\ to \in BookingStatuses
      BY RowsAreBookings DEF Exists, Rows, BookingStatuses
    <2> QED
      BY <2>1, <2>2, OneRestated, OneVehicle, CommitTyped, Untouched, TypedStep
  <1>3. CASE VehicleElsewhere
    <2>1. saving' = saving
      BY <1>3 DEF VehicleElsewhere
    <2>2. \E fleet : Commit(bookings, fleet) /\ Garage(fleet)
      BY <1>3, OneVehicle DEF VehicleElsewhere
    <2> QED
      BY <2>1, <2>2, Unchanged, CommitTyped, Untouched, TypedStep
  <1> QED
    BY <1>1, <1>2, <1>3 DEF Elsewhere
-----------------------------------------------------------------------------
(***************************************************************************)
(* What the statements read                                                *)
(***************************************************************************)

\* Rows are counted as well by their ids.
LEMMA IdsCount ==
  ASSUME TypeInv, NEW rows \in SUBSET Rows
  PROVE  /\ IsFiniteSet(rows) /\ Cardinality(rows) \in Nat
         /\ Ids(rows) \subseteq BookingIds
         /\ \A b \in Ids(rows) : Exists(b)
         /\ Cardinality(Ids(rows)) = Cardinality(rows)
         /\ Cardinality(rows) \in Totals
  <1>1. \A row \in rows : row.id \in BookingIds /\ row = bookings[row.id] /\ row # None
    BY RowsAreBookings, DeskAssumption
  <1>2. Ids(rows) \subseteq BookingIds /\ \A b \in Ids(rows) : Exists(b)
    BY <1>1 DEF Ids, Exists
  <1>3. IsFiniteSet(Ids(rows)) /\ Cardinality(Ids(rows)) <= Cardinality(BookingIds)
    BY <1>2, FS_Subset, DeskAssumption
  <1> DEFINE found == [ b \in Ids(rows) |-> bookings[b] ]
  <1>4. found \in Bijection(Ids(rows), rows)
    BY <1>1 DEF Bijection, Injection, Surjection, IsInjective, Ids
  <1>5. IsFiniteSet(rows) /\ Cardinality(rows) = Cardinality(Ids(rows))
    BY <1>3, <1>4, FS_Bijection DEF ExistsBijection
  <1>6. Cardinality(rows) \in Nat /\ Cardinality(rows) <= Cardinality(BookingIds)
    BY <1>3, <1>5, FS_CardinalityType
  <1>7. Cardinality(BookingIds) \in Nat /\ Cardinality(Vehicles) \in Nat
    BY DeskAssumption, FS_CardinalityType
  <1>8. Cardinality(rows) \in Totals
    BY <1>6, <1>7 DEF Totals, Max
  <1> QED
    BY <1>2, <1>5, <1>6, <1>8

LEMMA FleetCount ==
  ASSUME NEW listed \in SUBSET Vehicles
  PROVE  IsFiniteSet(listed) /\ Cardinality(listed) \in Totals /\ Cardinality(listed) \in Nat
  <1>1. Cardinality(BookingIds) \in Nat /\ Cardinality(Vehicles) \in Nat
    BY DeskAssumption, FS_CardinalityType
  <1>2. IsFiniteSet(listed) /\ Cardinality(listed) <= Cardinality(Vehicles)
    BY DeskAssumption, FS_Subset
  <1>3. Cardinality(listed) \in Nat
    BY <1>2, FS_CardinalityType
  <1> QED
    BY <1>1, <1>2, <1>3 DEF Totals, Max

LEMMA MaxOfTwo ==
  ASSUME NEW x \in Int, NEW y \in Int
  PROVE  Max({x, y}) = IF x >= y THEN x ELSE y
  BY DEF Max

LEMMA MinOfTwo ==
  ASSUME NEW x \in Int, NEW y \in Int
  PROVE  Min({x, y}) = IF x <= y THEN x ELSE y
  BY DEF Min

\* What a statement with a limit takes.
LEMMA FirstTakes ==
  ASSUME NEW rows, IsFiniteSet(rows), NEW rank, NEW limit \in Nat, NEW taken \in First(rows, rank, limit)
  PROVE  /\ taken \subseteq rows /\ IsFiniteSet(taken) /\ Cardinality(taken) \in Nat
         /\ Cardinality(taken) = Min({limit, Cardinality(rows)})
         /\ Cardinality(taken) = limit \/ taken = rows
         /\ Cardinality(rows) <= limit => taken = rows
  <1>1. taken \subseteq rows /\ Cardinality(taken) = Min({limit, Cardinality(rows)})
    BY DEF First
  <1>2. IsFiniteSet(taken) /\ Cardinality(taken) \in Nat /\ Cardinality(rows) \in Nat
    BY <1>1, FS_Subset, FS_CardinalityType
  <1>3. Cardinality(taken) = IF limit <= Cardinality(rows) THEN limit ELSE Cardinality(rows)
    BY <1>1, <1>2, MinOfTwo
  <1>4. Cardinality(taken) = Cardinality(rows) => taken = rows
    BY <1>1, FS_Subset
  <1> QED
    BY <1>1, <1>2, <1>3, <1>4

\* A part of a set that is within the limit is taken whole.
LEMMA PartTaken ==
  ASSUME NEW whole, IsFiniteSet(whole), NEW limit \in Nat, Cardinality(whole) <= limit,
         NEW part \in SUBSET whole, NEW rank, NEW taken \in First(part, rank, limit)
  PROVE  taken = part
  <1>1. IsFiniteSet(part) /\ Cardinality(part) <= Cardinality(whole)
    BY FS_Subset
  <1>2. Cardinality(part) \in Nat /\ Cardinality(whole) \in Nat
    BY <1>1, FS_CardinalityType
  <1>3. Cardinality(part) <= limit
    BY <1>1, <1>2
  <1> QED
    BY <1>1, <1>3, FirstTakes

LEMMA PagesOfTheirSet ==
  ASSUME NEW S, NEW s \in Listings(S), NEW page, NEW size
  PROVE  PageOf(s, page, size) \subseteq S
  BY DEF Listings, PageOf

LEMMA RowsRead ==
  ASSUME TypeInv
  PROVE  /\ \A about : ListRows(about) \subseteq Rows
         /\ \A about : FleetRows(about) \subseteq Vehicles
         /\ TodaysBookings(Today, Rows) \subseteq Rows
         /\ \A listed \in TodaysDispatch(Today, Rows) : listed \subseteq Rows
         /\ \A filter, range : \A bars \in Bars(filter, range, Rows) : bars \subseteq Rows
         /\ \A type, filter, range : \A report \in BookingRows(type, filter, range, Rows) :
              report \subseteq Rows
         /\ InService(vehicles) \subseteq Vehicles
         /\ \A status : \A listed \in TimelineVehicles(status, vehicles) :
              listed \subseteq InServiceWith(status, vehicles) /\ listed \subseteq Vehicles
         /\ \A about, seats : FreeVehicles(about, seats, Settings, Rows, vehicles) \subseteq Vehicles
         /\ \A about : FreeDrivers(about, Settings, Rows, DriverRows) \subseteq Drivers
         /\ \A about : ConflictKinds(about, Settings, Rows) \subseteq {"vehicle", "driver"}
  <1>1. DOMAIN vehicles = Vehicles
    BY DEF TypeInv, TablesOK, Garage
  <1>2. /\ TodaysBookings(Today, Rows) \subseteq Rows
        /\ \A listed \in TodaysDispatch(Today, Rows) : listed \subseteq Rows
    BY DEF TodaysBookings, OverlapsWindow, Active, TodaysDispatch, First
  <1>3. \A filter, range : \A bars \in Bars(filter, range, Rows) : bars \subseteq Rows
    BY DEF Bars, OverlapsWindow, Matching, First
  <1>4. \A type, filter, range : \A report \in BookingRows(type, filter, range, Rows) : report \subseteq Rows
    BY DEF BookingRows, StartingIn, Matching, First
  <1>5. \A about : ListRows(about) \subseteq Rows /\ FleetRows(about) \subseteq Vehicles
    BY <1>1 DEF ListRows, FleetRows, Matching, InService, InServiceWith
  <1>6. /\ InService(vehicles) \subseteq Vehicles
        /\ \A about, seats : FreeVehicles(about, seats, Settings, Rows, vehicles) \subseteq Vehicles
    BY <1>1 DEF InService, FreeVehicles
  <1>7. \A about : FreeDrivers(about, Settings, Rows, DriverRows) \subseteq Drivers
    BY DEF FreeDrivers, DriverRows
  <1>8. \A about : ConflictKinds(about, Settings, Rows) \subseteq {"vehicle", "driver"}
    BY DEF ConflictKinds
  <1>9. \A status : \A listed \in TimelineVehicles(status, vehicles) :
          listed \subseteq InServiceWith(status, vehicles) /\ listed \subseteq Vehicles
    BY <1>1 DEF TimelineVehicles, First, InServiceWith, InService
  <1> QED
    BY <1>2, <1>3, <1>4, <1>5, <1>6, <1>7, <1>8, <1>9

\* The lists of alternatives are of what is free, as long as they may be.
LEMMA AlternativesListed ==
  ASSUME TypeInv, NEW about, NEW seats
  PROVE  /\ \A free \in AlternativeVehicles(about, seats, Settings, Rows, vehicles) :
              /\ free \subseteq FreeVehicles(about, seats, Settings, Rows, vehicles)
              /\ \/ free = FreeVehicles(about, seats, Settings, Rows, vehicles)
                 \/ Cardinality(free) = Limits.alternatives
         /\ \A idle \in AlternativeDrivers(about, Settings, Rows, DriverRows) :
              /\ idle \subseteq FreeDrivers(about, Settings, Rows, DriverRows)
              /\ \/ idle = FreeDrivers(about, Settings, Rows, DriverRows)
                 \/ Cardinality(idle) = Limits.alternatives
  <1> DEFINE free == FreeVehicles(about, seats, Settings, Rows, vehicles)
             idle == FreeDrivers(about, Settings, Rows, DriverRows)
  <1>1. Limits.alternatives \in Nat
    BY LimitsAssumption
  <1>2. IsFiniteSet(free) /\ IsFiniteSet(idle)
    BY RowsRead, FS_Subset, DeskAssumption
  <1>3. /\ AlternativeVehicles(about, seats, Settings, Rows, vehicles)
             = First(free, BySeats(free, vehicles), Limits.alternatives)
        /\ AlternativeDrivers(about, Settings, Rows, DriverRows)
             = First(idle, Unordered(idle), Limits.alternatives)
    BY DEF AlternativeVehicles, AlternativeDrivers
  <1> HIDE DEF free, idle
  <1>4. \A taken \in First(free, BySeats(free, vehicles), Limits.alternatives) :
          taken \subseteq free /\ (taken = free \/ Cardinality(taken) = Limits.alternatives)
    BY <1>1, <1>2, FirstTakes
  <1>5. \A taken \in First(idle, Unordered(idle), Limits.alternatives) :
          taken \subseteq idle /\ (taken = idle \/ Cardinality(taken) = Limits.alternatives)
    BY <1>1, <1>2, FirstTakes
  <1> QED
    BY <1>3, <1>4, <1>5 DEF free, idle

\* The timeline has the vehicles asked for, as far as it may.
LEMMA TimelineListed ==
  ASSUME TypeInv, NEW status, NEW listed \in TimelineVehicles(status, vehicles)
  PROVE  listed = InServiceWith(status, vehicles) \/ Cardinality(listed) = Limits.timelineVehicles
  <1> DEFINE matching == InServiceWith(status, vehicles)
  <1>1. matching \in SUBSET Vehicles /\ Limits.timelineVehicles \in Nat
    BY LimitsAssumption DEF InServiceWith, InService, TypeInv, TablesOK, Garage
  <1>2. listed \in First(matching, Unordered(matching), Limits.timelineVehicles)
    BY DEF TimelineVehicles
  <1> HIDE DEF matching
  <1>3. IsFiniteSet(matching)
    BY <1>1, FleetCount
  <1>4. listed = matching \/ Cardinality(listed) = Limits.timelineVehicles
    BY <1>1, <1>2, <1>3, FirstTakes
  <1> QED
    BY <1>4 DEF matching

LEMMA AlternativesGiven ==
  ASSUME TypeInv, NEW about, NEW seats, NEW before \in AnswerRecords,
         NEW a \in WithAlternatives(before, about, seats)
  PROVE  /\ a \in AnswerRecords /\ a.conflict = before.conflict
         /\ a.vehicles \in AlternativeVehicles(about, seats, Settings, Rows, vehicles)
         /\ a.drivers \in AlternativeDrivers(about, Settings, Rows, DriverRows)
  <1>1. PICK free \in AlternativeVehicles(about, seats, Settings, Rows, vehicles) :
          \E idle \in AlternativeDrivers(about, Settings, Rows, DriverRows) :
            a = [ before EXCEPT !.vehicles = free, !.drivers = idle ]
    BY DEF WithAlternatives
  <1>2. PICK idle \in AlternativeDrivers(about, Settings, Rows, DriverRows) :
          a = [ before EXCEPT !.vehicles = free, !.drivers = idle ]
    BY <1>1
  <1>3. free \subseteq Vehicles /\ idle \subseteq Drivers
    BY AlternativesListed, RowsRead
  <1> QED
    BY <1>2, <1>3 DEF AnswerRecords

\* What a statement puts into an answer, and that it is up to date.
LEMMA ReadsCurrent ==
  ASSUME TypeInv, NEW statement \in Statements[screen], NEW about, NEW before \in AnswerRecords,
         NEW a \in Read(statement, about, before)
  PROVE  /\ a \in AnswerRecords
         /\ screen = "list" => \A b \in a.items : b \in before.items \/ Exists(b)
         /\ Current(statement, about, a)
         /\ \A other \in Statements[screen] \ {statement} :
              Current(other, about, before) => Current(other, about, a)
  <1>1. CASE screen = "list"
    <2>1. Statements[screen] = {"items", "total"} /\ a \in ReadList(statement, about, before)
      BY <1>1 DEF Statements, Read
    <2>2. CASE statement = "total"
      <3>1. a = [ before EXCEPT !.total = Cardinality(ListRows(about)) ]
        BY <2>1, <2>2 DEF ReadList, ListRows
      <3>2. Cardinality(ListRows(about)) \in Totals
        BY RowsRead, IdsCount
      <3> QED
        BY <1>1, <2>1, <2>2, <3>1, <3>2 DEF AnswerRecords, Current
    <2>3. CASE statement = "items"
      <3>0. PICK s \in Orders(ListRows(about)) :
              a = [ before EXCEPT !.items = Ids(PageOf(s, about.page, PageSize)) ]
        BY <2>1, <2>3 DEF ReadList, ListRows
      <3>1. PICK ids :
              ids = Ids(PageOf(s, about.page, PageSize)) /\ a = [ before EXCEPT !.items = ids ]
        BY <3>0
      <3>2. PageOf(s, about.page, PageSize) \subseteq Rows
        BY RowsRead, PagesOfTheirSet DEF Orders
      <3>3. ids \subseteq BookingIds /\ \A b \in ids : Exists(b)
        BY <3>1, <3>2, IdsCount
      <3>4. a \in AnswerRecords /\ a.items = ids /\ a.total = before.total
        BY <3>1, <3>3 DEF AnswerRecords
      <3> QED
        BY <1>1, <2>1, <2>3, <3>1, <3>3, <3>4 DEF Current
    <2> QED
      BY <2>1, <2>2, <2>3
  <1>2. CASE screen = "fleet"
    <2>1. Statements[screen] = {"items", "total"} /\ a \in ReadFleet(statement, about, before)
      BY <1>2 DEF Statements, Read
    <2>2. CASE statement = "total"
      <3>1. a = [ before EXCEPT !.total = Cardinality(FleetRows(about)) ]
        BY <2>1, <2>2 DEF ReadFleet, FleetRows
      <3>2. Cardinality(FleetRows(about)) \in Totals
        BY RowsRead, FleetCount
      <3> QED
        BY <1>2, <2>1, <2>2, <3>1, <3>2 DEF AnswerRecords, Current
    <2>3. CASE statement = "items"
      <3>0. PICK s \in Listings(FleetRows(about)) :
              a = [ before EXCEPT !.items = PageOf(s, about.page, PageSize) ]
        BY <2>1, <2>3 DEF ReadFleet, FleetRows
      <3>1. PICK listed :
              listed = PageOf(s, about.page, PageSize) /\ a = [ before EXCEPT !.items = listed ]
        BY <3>0
      <3>2. listed \subseteq Vehicles
        BY <3>1, RowsRead, PagesOfTheirSet
      <3>3. a \in AnswerRecords /\ a.items = listed /\ a.total = before.total
        BY <3>1, <3>2 DEF AnswerRecords
      <3> QED
        BY <1>2, <2>1, <2>3, <3>1, <3>3 DEF Current
    <2> QED
      BY <2>1, <2>2, <2>3
  <1>3. CASE screen = "form"
    <2>1. /\ Statements[screen] = {"conflict", "alternatives"}
          /\ a \in ReadAvailability(statement, about, before)
      BY <1>3 DEF Statements, Read
    <2>2. CASE statement = "conflict"
      <3>1. a = [ before EXCEPT !.conflict = ConflictKinds(about, Settings, Rows) ]
        BY <2>1, <2>2 DEF ReadAvailability
      <3> QED
        BY <1>3, <2>1, <2>2, <3>1, RowsRead DEF AnswerRecords, Current
    <2>3. CASE statement = "alternatives"
      <3>1. a \in WithAlternatives(before, about, SeatsFor(about))
        BY <2>1, <2>3 DEF ReadAvailability, SeatsFor
      <3> QED
        BY <1>3, <2>1, <2>3, <3>1, AlternativesGiven DEF Current
    <2> QED
      BY <2>1, <2>2, <2>3
  <1>4. CASE screen = "dashboard"
    <2>1. /\ Statements[screen] = {"items", "total", "bars", "vehicles"}
          /\ a \in ReadDashboard(statement, about, before)
      BY <1>4 DEF Statements, Read
    <2> DEFINE today == TodaysBookings(Today, Rows)
    <2>2. Cardinality(today) \in Totals
      BY RowsRead, IdsCount
    <2>3. CASE statement = "total"
      <3>1. a = [ before EXCEPT !.total = Cardinality(today) ]
        BY <2>1, <2>3 DEF ReadDashboard, BookingCards
      <3> QED
        BY <1>4, <2>1, <2>2, <2>3, <3>1 DEF AnswerRecords, Current
    <2>4. CASE statement = "items"
      <3>1. PICK listed \in TodaysDispatch(Today, Rows) : a = [ before EXCEPT !.items = Ids(listed) ]
        BY <2>1, <2>4 DEF ReadDashboard
      <3>2. PICK ids : ids = Ids(listed) /\ a = [ before EXCEPT !.items = ids ]
        BY <3>1
      <3>3. ids \subseteq BookingIds
        BY <3>2, RowsRead, IdsCount
      <3>4. /\ a \in AnswerRecords /\ a.items = ids
            /\ a.total = before.total /\ a.bars = before.bars /\ a.vehicles = before.vehicles
        BY <3>2, <3>3 DEF AnswerRecords
      <3> QED
        BY <1>4, <2>1, <2>4, <3>2, <3>4 DEF Current
    <2>5. CASE statement = "vehicles"
      <3>1. PICK listed \in TimelineVehicles(about.vehicleStatus, vehicles) :
              a = [ before EXCEPT !.vehicles = listed ]
        BY <2>1, <2>5 DEF ReadDashboard
      <3>2. listed \subseteq Vehicles
        BY RowsRead
      <3>3. /\ a \in AnswerRecords /\ a.vehicles = listed
            /\ a.total = before.total /\ a.bars = before.bars /\ a.items = before.items
        BY <3>1, <3>2 DEF AnswerRecords
      <3> QED
        BY <1>4, <2>1, <2>5, <3>3 DEF Current
    <2>6. CASE statement = "bars"
      <3>0. PICK taken \in Bars(Parsed(about), Period, Rows) :
              a = [ before EXCEPT !.bars = { << row.id, row.vehicle >> : row \in taken } ]
        BY <2>1, <2>6 DEF ReadDashboard
      <3>1. PICK bars :
              bars = { << row.id, row.vehicle >> : row \in taken } /\ a = [ before EXCEPT !.bars = bars ]
        BY <3>0
      <3>2. bars \subseteq BookingIds \X Vehicles
        <4>1. taken \subseteq Rows
          BY <3>0, RowsRead
        <4> QED
          BY <3>1, <4>1, RowsAreBookings DEF RowRecords
      <3>3. /\ a \in AnswerRecords /\ a.bars = bars
            /\ a.total = before.total /\ a.items = before.items /\ a.vehicles = before.vehicles
        BY <3>1, <3>2 DEF AnswerRecords
      <3> QED
        BY <1>4, <2>1, <2>6, <3>2, <3>3 DEF Current
    <2> QED
      BY <2>1, <2>3, <2>4, <2>5, <2>6
  <1>5. CASE screen = "reports"
    <2>1. Statements[screen] = {"items"} /\ a \in ReadReport(statement, about, before)
      BY <1>5 DEF Statements, Read
    <2>5. PICK report \in BookingRows(about.type, Parsed(about), Period, Rows) :
            \E listed \in Preview(report) : a = [ before EXCEPT !.items = Ids(listed) ]
      BY <2>1 DEF ReadReport
    <2>2. PICK listed \in Preview(report) : a = [ before EXCEPT !.items = Ids(listed) ]
      BY <2>5
    <2>0. PICK ids : ids = Ids(listed) /\ a = [ before EXCEPT !.items = ids ]
      BY <2>2
    <2>3. ids \subseteq BookingIds
      <3>1. listed \subseteq report /\ report \subseteq Rows
        BY <2>2, RowsRead DEF Preview, First
      <3>2. listed \in SUBSET Rows
        BY <3>1
      <3> QED
        BY <2>0, <3>2, IdsCount
    <2>4. a \in AnswerRecords
      BY <2>0, <2>3 DEF AnswerRecords
    <2> QED
      BY <1>5, <2>4 DEF Current
  <1> QED
    BY <1>1, <1>2, <1>3, <1>4, <1>5 DEF TypeInv, ScreenOK, Screens, Statements
-----------------------------------------------------------------------------
(***************************************************************************)
(* The user's steps keep the types                                         *)
(***************************************************************************)
LEMMA QueryTyped ==
  ASSUME TypeInv, NEW c \in SettableOn(screen), Query(c)
  PROVE  TypeInv'
  <1>1. RequestsStep
    BY SendTyped DEF Query
  <1>2. Savable(saving')
    BY OutlivedTyped DEF Query
  <1>3. TablesStep /\ ControlsStep /\ ShownStep
    BY Untouched DEF Query, tables, TypeInv, ControlsOK, ControlsStep
  <1> QED
    BY <1>1, <1>2, <1>3, TypedStep

\* A step of the controls alone, the timer and what is shown with them.
LEMMA EditTyped ==
  ASSUME TypeInv, controls' \in SettableOn(screen), timer' \in BOOLEAN,
         shown' = shown \/ shown' = None, saving' = Outlived \/ saving' = saving,
         UNCHANGED << screen, bookings, vehicles, busy, stray, requests >>
  PROVE  TypeInv'
  <1>1. Savable(saving')
    BY OutlivedTyped, Untouched
  <1>2. ControlsStep
    BY DEF TypeInv, ControlsOK, ControlsStep
  <1>3. TablesStep /\ RequestsStep /\ ShownStep
    BY Untouched
  <1> QED
    BY <1>1, <1>2, <1>3, TypedStep

\* A step of the save alone.
LEMMA SaveTyped ==
  ASSUME TypeInv, Savable(saving'), UNCHANGED << screen, tables, panel, requests >>
  PROVE  TypeInv'
  BY Untouched, TypedStep DEF tables, panel

LEMMA FormEdited ==
  ASSUME TypeInv, NEW c, EditForm(c)
  PROVE  TypeInv'
  <1>1. c \in SettableOn(screen) /\ timer' \in BOOLEAN
    BY DEF EditForm, SettableOn, RestartsTimer, Complete
  <1> QED
    BY <1>1, EditTyped DEF EditForm, tables, asked

\* The page a list turns to is one that the filter has.
LEMMA TurnedPage ==
  ASSUME TypeInv, TurnPage
  PROVE  TypeInv'
  <1>1. screen \in {"list", "fleet"} /\ controls \in Controls[screen] /\ controls.page \in Nat \ {0}
    BY DeskAssumption DEF TurnPage, TypeInv, ControlsOK, SettableOn
  <1>2. CASE controls.page > 1 /\ Query([ controls EXCEPT !.page = @ - 1 ])
    <2>1. [ controls EXCEPT !.page = @ - 1 ] \in SettableOn(screen)
      BY <1>1, <1>2, DeskAssumption DEF SettableOn
    <2> QED
      BY <1>2, <2>1, QueryTyped
  <1>3. CASE controls.page < Pages /\ Query([ controls EXCEPT !.page = @ + 1 ])
    <2>1. shown # None /\ shown.answer.total \in Totals
      BY <1>1, <1>3 DEF Pages, TypeInv, ShownOK, ShownOn, AnswerRecords
    <2>2. PageCount(shown.answer.total, PageSize) \in Int
      BY <2>1, DeskAssumption DEF PageCount, Totals
    <2>3. controls.page < PageCount(shown.answer.total, PageSize)
      BY <1>1, <1>3, <2>1, <2>2, MaxOfTwo DEF Pages
    <2>4. [ controls EXCEPT !.page = @ + 1 ] \in SettableOn(screen)
      BY <1>1, <2>1, <2>3, DeskAssumption DEF SettableOn
    <2> QED
      BY <1>3, <2>4, QueryTyped
  <1> QED
    BY <1>2, <1>3 DEF TurnPage

LEMMA OpenedForm ==
  ASSUME TypeInv, OpenForm
  PROVE  TypeInv'
  <1>1. controls' \in SettableOn(screen) /\ timer' \in BOOLEAN /\ (shown' = shown \/ shown' = None)
    BY DeskAssumption DEF OpenForm, SettableOn
  <1> QED
    BY <1>1, EditTyped DEF OpenForm, tables, asked

LEMMA TimerTyped ==
  ASSUME TypeInv, TimerFires
  PROVE  TypeInv'
  <1>1. controls' \in SettableOn(screen)
    BY DeskAssumption DEF TimerFires, TypeInv, ControlsOK, SettableOn
  <1>2. PICK c \in SettableOn(screen) : c = controls' /\ Send(c, FALSE)
    BY <1>1 DEF TimerFires
  <1>3. RequestsStep
    BY <1>2, SendTyped
  <1>4. Savable(saving')
    BY OutlivedTyped DEF TimerFires
  <1>5. TablesStep /\ ControlsStep /\ ShownStep
    BY <1>1, Untouched DEF TimerFires, tables, TypeInv, ControlsOK, ControlsStep
  <1> QED
    BY <1>3, <1>4, <1>5, TypedStep

LEMMA ReloadTyped ==
  ASSUME TypeInv, Reload
  PROVE  TypeInv'
  <1>1. RequestsStep
    BY SendTyped DEF Reload, TypeInv, ControlsOK
  <1>2. TablesStep /\ ControlsStep /\ ShownStep /\ Savable(saving')
    BY Untouched DEF Reload, tables, TypeInv, ControlsOK, ControlsStep
  <1> QED
    BY <1>1, <1>2, TypedStep

LEMMA ControlsNotNone ==
  ASSUME TypeInv
  PROVE  controls # None
  BY SettingsAreNotNone DEF TypeInv, ScreenOK, ControlsOK

LEMMA SubmitTyped ==
  ASSUME TypeInv, Submit
  PROVE  TypeInv'
  <1>1. controls \in FormRecords /\ controls \in SettableOn(screen) /\ screen = "form"
    BY FormsAreRecords DEF Submit, TypeInv, ControlsOK
  <1>2. Savable(saving')
    BY <1>1, StartTyped, ControlsNotNone DEF Submit, FormRecords, Complete
  <1> QED
    BY <1>2, SaveTyped DEF Submit, asked

LEMMA AskTyped ==
  ASSUME TypeInv, AskAction
  PROVE  TypeInv'
  <1>1. PICK b \in shown.answer.items, kind \in {"status", "cancel"} :
          saving' = [ saving EXCEPT !.dialog = [ kind |-> kind, id |-> b ] ]
    BY DEF AskAction
  <1>2. Exists(b)
    BY DEF AskAction, TypeInv, ShownNamed
  <1>3. PICK dialog \in Questions : dialog = [ kind |-> kind, id |-> b ]
    BY <1>2 DEF Questions, Exists
  <1>4. saving \in SavingsOn(screen) /\ Savable(saving)
    BY DEF TypeInv, SavingOK, SavingNamed, Savable
  <1>5. saving' = [ saving EXCEPT !.dialog = dialog ] /\ dialog.id = b
    BY <1>1, <1>3
  <1>6. Savable(saving')
    BY <1>2, <1>4, <1>5 DEF SavingsOn, Savable
  <1> QED
    BY <1>6, SaveTyped DEF AskAction, asked

LEMMA ConfirmTyped ==
  ASSUME TypeInv, Confirm
  PROVE  TypeInv'
  <1>1. saving.dialog \in Questions /\ saving.dialog # None /\ Exists(saving.dialog.id)
    BY DEF Confirm, Overlaid, TypeInv, SavingOK, SavingNamed, SavingsOn
  <1>2. Savable(saving')
    BY <1>1, StartTyped, ControlsNotNone DEF Confirm, TypeInv, ControlsOK
  <1> QED
    BY <1>2, SaveTyped DEF Confirm, asked

LEMMA DismissTyped ==
  ASSUME TypeInv, Dismiss
  PROVE  TypeInv'
  <1>1. Savable(saving')
    BY DEF Dismiss, TypeInv, SavingOK, SavingNamed, SavingsOn, Savable
  <1> QED
    BY <1>1, SaveTyped DEF Dismiss, asked

LEMMA VehicleSaveTyped ==
  ASSUME TypeInv, SaveVehicle
  PROVE  TypeInv'
  <1>1. PICK v \in shown.answer.items : Start(controls, v)
    BY DEF SaveVehicle
  <1>2. v \in BookingIds \cup Vehicles
    BY DEF SaveVehicle, TypeInv, ShownOK, ShownOn, AnswerRecords
  <1>3. Savable(saving')
    BY <1>1, <1>2, StartTyped, ControlsNotNone DEF SaveVehicle, TypeInv, ControlsOK
  <1> QED
    BY <1>3, SaveTyped DEF SaveVehicle, asked

LEMMA ExportTyped ==
  ASSUME TypeInv, AskExport
  PROVE  TypeInv'
  <1>1. Savable(saving')
    BY StartTyped, ControlsNotNone DEF AskExport, TypeInv, ControlsOK
  <1> QED
    BY <1>1, SaveTyped DEF AskExport

LEMMA UserTyped ==
  ASSUME TypeInv, User
  PROVE  TypeInv'
  <1>1. CASE ChangeFilter
    BY <1>1, QueryTyped DEF ChangeFilter, SettableOn
  <1>2. CASE TypeVoucher
    BY <1>2, EditTyped DEF TypeVoucher, TypeInv, ControlsOK, tables, asked
  <1>3. CASE ChangeTrip \/ ChooseResource \/ TakeAlternative
    BY <1>3, FormEdited DEF ChangeTrip, ChooseResource, TakeAlternative
  <1>4. CASE CloseForm
    BY <1>4, EditTyped DEF CloseForm, SettableOn, tables, asked
  <1>5. CASE ChangeDashboard
    BY <1>5, EditTyped DEF ChangeDashboard, SettableOn, tables, asked
  <1>6. CASE ChangeReportType
    <2>1. controls' \in SettableOn(screen)
      BY <1>6, DeskAssumption DEF ChangeReportType, SettableOn, TypeInv, ControlsOK
    <2> QED
      BY <1>6, <2>1, EditTyped DEF ChangeReportType, tables, asked
  <1>7. CASE ChangeReportFilters
    <2>1. timer' \in BOOLEAN
      BY <1>7 DEF ChangeReportFilters
    <2> QED
      BY <1>7, <2>1, EditTyped DEF ChangeReportFilters, SettableOn, tables, asked
  <1>8. CASE PressReload \/ PressPreview
    BY <1>8, ReloadTyped DEF PressReload, PressPreview
  <1> QED
    BY <1>1, <1>2, <1>3, <1>4, <1>5, <1>6, <1>7, <1>8, TurnedPage, OpenedForm, TimerTyped,
       SubmitTyped, AskTyped, ConfirmTyped, DismissTyped, VehicleSaveTyped, ExportTyped DEF User
-----------------------------------------------------------------------------
(***************************************************************************)
(* Saves and exports keep the types                                        *)
(***************************************************************************)

\* The row of a form that is complete covers its trip, as every row does.
LEMMA FormRowIsOne ==
  ASSUME TypeInv, screen = "form", saving.stage = "sent",
         NEW b \in IF saving.about.editing = None THEN { x \in BookingIds : bookings[x] = None }
                   ELSE {saving.about.editing}
  PROVE  /\ b \in BookingIds /\ FormRow(b, saving.about) \in RowRecords
         /\ FormRow(b, saving.about).id = b /\ Covers(FormRow(b, saving.about))
  <1> DEFINE c == saving.about
             row == FormRow(b, c)
  <1>1. c \in FormRecords
    BY FormsAreRecords, SettingsAreNotNone DEF TypeInv, SavingOK, SavingsOn
  <1>2. b \in BookingIds
    BY <1>1 DEF FormRecords
  <1>3. c.vehicle \in Vehicles /\ c.driver \in Drivers /\ c.startAt < c.endAt
    BY <1>1 DEF FormRecords, TypeInv, SavingOK
  <1>4. Settings.pre \in Nat /\ Settings.post \in Nat
    BY DeskAssumption
  <1>5. PICK window : window = ResolveWindow(c.tripType, c.startAt, c.endAt, Settings)
    OBVIOUS
  <1>6. /\ window.from \in Int /\ window.to \in Int
        /\ window.from <= c.startAt /\ c.endAt <= window.to
    BY <1>1, <1>4, <1>5 DEF ResolveWindow, FormRecords
  <1>7. PICK status \in BookingStatuses :
          status = IF bookings[b] = None THEN "DRAFT" ELSE bookings[b].status
    <2>1. bookings[b] # None => bookings[b].status \in BookingStatuses
      BY <1>2 DEF TypeInv, TablesOK, Booked, RowRecords
    <2> QED
      BY <2>1 DEF BookingStatuses
  <1>8. row = [ id |-> b, vehicle |-> c.vehicle, driver |-> c.driver, startAt |-> c.startAt,
                endAt |-> c.endAt, from |-> window.from, to |-> window.to, tripType |-> c.tripType,
                status |-> status, cost |-> 0 ]
    BY <1>5, <1>7 DEF FormRow
  <1> HIDE DEF row
  <1>9. row \in RowRecords /\ row.id = b /\ Covers(row)
    BY <1>1, <1>2, <1>3, <1>6, <1>8 DEF RowRecords, FormRecords, Covers
  <1> QED
    BY <1>2, <1>9 DEF row

LEMMA DetailsAreAnswers ==
  ASSUME TypeInv, NEW about
  PROVE  FullAnswers(about) \subseteq AnswerRecords
  <1>1. PICK kinds : kinds = ConflictKinds(about, Settings, Rows)
    OBVIOUS
  <1>2. PICK found : found = [ NoAnswer EXCEPT !.conflict = kinds ]
    OBVIOUS
  <1>3. found \in AnswerRecords
    BY <1>1, <1>2, RowsRead, NoAnswerIsOne DEF AnswerRecords
  <1>4. FullAnswers(about) = WithAlternatives(found, about, 0)
    BY <1>1, <1>2 DEF FullAnswers
  <1> QED
    BY <1>3, <1>4, AlternativesGiven

LEMMA NoAnswerIsEmpty == NoAnswer.items = {}
  BY DEF NoAnswer

LEMMA SubmitServed ==
  ASSUME TypeInv, ServeSubmit
  PROVE  TypeInv'
  <1> DEFINE c == saving.about
  <1>1. screen = "form" /\ saving.stage = "sent"
    BY DEF ServeSubmit
  <1>2. PICK b \in IF c.editing = None THEN { x \in BookingIds : bookings[x] = None } ELSE {c.editing} :
          \/ /\ Commit([ bookings EXCEPT ![b] = FormRow(b, c) ], vehicles)
             /\ Answered("200", NoAnswer)
          \/ /\ \E details \in FullAnswers(c) : Answered("409", details)
             /\ UNCHANGED << screen, tables, panel, asked >>
          \/ /\ Answered("refused", NoAnswer)
             /\ UNCHANGED << screen, tables, panel, asked >>
    BY DEF ServeSubmit
  <1>3. Savable(saving')
    BY <1>1, <1>2, AnsweredTyped, DetailsAreAnswers, NoAnswerIsOne
  <1>4. CASE UNCHANGED << screen, tables, panel, asked >>
    BY <1>3, <1>4, SaveTyped DEF asked
  <1>5. CASE Commit([ bookings EXCEPT ![b] = FormRow(b, c) ], vehicles)
    <2>1. PICK row \in RowRecords : row = FormRow(b, c) /\ row.id = b /\ Covers(row) /\ b \in BookingIds
      BY <1>1, FormRowIsOne
    <2>2. Commit([ bookings EXCEPT ![b] = row ], vehicles)
      BY <1>5, <2>1
    <2> QED
      BY <1>3, <2>1, <2>2, OneBooked, OneVehicle, CommitTyped, TypedStep
  <1> QED
    BY <1>2, <1>4, <1>5

LEMMA StatusServed ==
  ASSUME TypeInv, ServeStatus
  PROVE  TypeInv'
  <1> DEFINE b == saving.target.id
  <1>1. Exists(b) /\ bookings[b].id = b
    BY DEF ServeStatus, TypeInv, SavingNamed, TablesOK, Booked, Exists
  <1>2. PICK answer \in {"200", "refused"} : Answered(answer, NoAnswer)
    BY DEF ServeStatus
  <1>3. Savable(saving')
    BY <1>2, AnsweredTyped, NoAnswerIsOne, NoAnswerIsEmpty DEF ServeStatus
  <1>4. CASE UNCHANGED << screen, tables, panel, asked >>
    BY <1>3, <1>4, SaveTyped DEF asked
  <1>5. CASE \E to \in BookingStatuses : Commit([ bookings EXCEPT ![b].status = to ], vehicles)
    <2>1. PICK to \in BookingStatuses : Commit([ bookings EXCEPT ![b].status = to ], vehicles)
      BY <1>5
    <2> QED
      BY <1>1, <1>3, <2>1, OneRestated, OneVehicle, CommitTyped, TypedStep
  <1> QED
    BY <1>1, <1>4, <1>5 DEF ServeStatus, BookingStatuses

LEMMA VehicleServed ==
  ASSUME TypeInv, ServeVehicle
  PROVE  TypeInv'
  <1>1. PICK answer \in {"200", "refused"} : Answered(answer, NoAnswer)
    BY DEF ServeVehicle
  <1>2. Savable(saving')
    BY <1>1, AnsweredTyped, NoAnswerIsOne DEF ServeVehicle
  <1>3. CASE UNCHANGED << screen, tables, panel, asked >>
    BY <1>2, <1>3, SaveTyped DEF asked
  <1>4. CASE \E fleet : Commit(bookings, fleet) /\ Garage(fleet)
    BY <1>2, <1>4, Unchanged, CommitTyped, TypedStep
  <1> QED
    BY <1>3, <1>4, OneVehicle DEF ServeVehicle

LEMMA SavedTyped ==
  ASSUME TypeInv, DeliverSaved
  PROVE  TypeInv'
  <1>1. saving.about \in SettableOn(screen) /\ saving.outlived \in BOOLEAN
    BY DEF DeliverSaved, TypeInv, SavingOK, SavingsOn
  <1>2. RequestsStep
    BY <1>1, SendTyped DEF DeliverSaved
  <1>3. PICK dialog \in {saving.dialog, None} : saving' = [ NotSaving EXCEPT !.dialog = dialog ]
    BY DEF DeliverSaved
  <1>4. TablesStep /\ ControlsStep /\ ShownStep
    BY Untouched DEF DeliverSaved, tables, TypeInv, ControlsOK, ControlsStep
  <1> QED
    BY <1>2, <1>3, <1>4, OverTyped, TypedStep

\* A save that is over, and no dialog.
LEMMA IdleTyped ==
  ASSUME TypeInv, saving' = NotSaving
  PROVE  Savable(saving')
  BY NoAnswerIsOne DEF TypeInv, SavingsOn, Savable, NotSaving, NoAnswer

LEMMA BookedTyped ==
  ASSUME TypeInv, DeliverBooked
  PROVE  TypeInv'
  <1>1. ControlsStep
    BY DEF DeliverBooked, SettableOn, TypeInv, ControlsOK, ControlsStep
  <1> QED
    BY <1>1, IdleTyped, Untouched, TypedStep DEF DeliverBooked, tables, asked

LEMMA ConflictTyped ==
  ASSUME TypeInv, DeliverConflict
  PROVE  TypeInv'
  <1>1. /\ saving.about \in SettableOn(screen) /\ saving.details \in AnswerRecords
        /\ saving.outlived \in BOOLEAN /\ (screen = "list" => saving.details.items = {})
    BY DEF DeliverConflict, TypeInv, SavingOK, SavingNamed, SavingsOn
  <1>2. ShownStep
    BY <1>1 DEF DeliverConflict, ShownStep, ShownOn
  <1>3. ControlsStep
    BY <1>1 DEF DeliverConflict, TypeInv, ControlsOK, ControlsStep
  <1> QED
    BY <1>2, <1>3, IdleTyped, Untouched, TypedStep DEF DeliverConflict, tables, asked

LEMMA SavesTyped ==
  ASSUME TypeInv, Saves
  PROVE  TypeInv'
  <1>1. CASE DeliverRefused \/ RefuseExport \/ FailExport
    BY <1>1, OverTyped, SaveTyped DEF DeliverRefused, RefuseExport, FailExport, Over, asked
  <1>2. CASE GenerateExport
    <2>1. Savable(saving')
      BY <1>2 DEF GenerateExport, TypeInv, SavingOK, SavingNamed, SavingsOn, Savable
    <2> QED
      BY <1>2, <2>1, SaveTyped DEF GenerateExport, asked
  <1> QED
    BY <1>1, <1>2, SubmitServed, StatusServed, VehicleServed, BookedTyped, SavedTyped, ConflictTyped
    DEF Saves

LEMMA RequestTyped ==
  ASSUME TypeInv, NEW r \in Slots, Serve(r) \/ Deliver(r) \/ Fail(r)
  PROVE  TypeInv'
  <1>1. requests[r] \in RequestsOn(screen)
    BY DEF TypeInv, RequestsOK
  <1>2. CASE Serve(r)
    <2>0. PICK statement \in requests[r].waiting :
            \E a \in Read(statement, requests[r].about, requests[r].answer) :
              requests' = [ requests EXCEPT ![r].waiting = @ \ {statement}, ![r].answer = a ]
      BY <1>2 DEF Serve
    <2>1. PICK a \in Read(statement, requests[r].about, requests[r].answer) :
            requests' = [ requests EXCEPT ![r].waiting = @ \ {statement}, ![r].answer = a ]
      BY <2>0
    <2>2. statement \in Statements[screen] /\ requests[r].answer \in AnswerRecords
      BY <1>1, <2>0 DEF RequestsOn
    <2>3. a \in AnswerRecords
      BY <2>1, <2>2, ReadsCurrent
    <2>4. screen = "list" => \A b \in a.items : Exists(b)
      BY <2>1, <2>2, ReadsCurrent DEF TypeInv, RequestsNamed
    <2>5. PICK q : q = [ requests[r] EXCEPT !.waiting = @ \ {statement}, !.answer = a ]
      OBVIOUS
    <2>6. q \in RequestsOn(screen) /\ q.answer = a
      BY <1>1, <2>3, <2>5 DEF RequestsOn
    <2>7. requests' = [ requests EXCEPT ![r] = q ]
      BY <2>1, <2>5 DEF TypeInv, RequestsOK
    <2>8. RequestsStep
      BY <2>4, <2>6, <2>7 DEF TypeInv, RequestsOK, RequestsNamed, RequestsStep
    <2> QED
      BY <1>2, <2>8, Untouched, TypedStep DEF Serve, tables, panel
  <1>3. CASE Deliver(r)
    <2>1. RequestsStep
      BY <1>3, EndedTyped DEF Deliver
    <2>2. ShownStep
      BY <1>1, <1>3 DEF Deliver, RequestsOn, ShownOn, ShownStep, TypeInv, RequestsNamed
    <2>3. ControlsStep
      BY <1>1, <1>3 DEF Deliver, RequestsOn, TypeInv, ControlsOK, ControlsStep
    <2> QED
      BY <1>3, <2>1, <2>2, <2>3, Untouched, TypedStep DEF Deliver, tables
  <1>4. CASE Fail(r)
    <2>1. RequestsStep
      BY <1>4, EndedTyped DEF Fail
    <2>2. ControlsStep
      BY <1>4 DEF Fail, TypeInv, ControlsOK, ControlsStep
    <2> QED
      BY <1>4, <2>1, <2>2, Untouched, TypedStep DEF Fail, tables
  <1> QED
    BY <1>2, <1>3, <1>4

LEMMA InitTyped == Init => TypeInv
  <1> SUFFICES ASSUME Init PROVE TypeInv
    OBVIOUS
  <1>1. PICK s \in Starts : screen = s.screen /\ bookings = s.bookings /\ controls = s.controls
    BY DEF Init
  <1>2. screen \in Screens /\ controls \in SettableOn(screen) /\ Booked(bookings)
    BY <1>1, DeskAssumption DEF SettableOn, Booked
  <1>3. Garage(vehicles)
    BY DeskAssumption DEF Init, Garage, VehicleRecords
  <1>4. ControlsOK
    <2>1. timer \in BOOLEAN
      <3>1. timer = (screen \in {"list", "dashboard", "reports"})
        BY DEF Init
      <3> QED
        BY <3>1
    <2>2. busy \in BOOLEAN
      <3>1. busy = (screen \in {"list", "fleet"})
        BY DEF Init
      <3> QED
        BY <3>1
    <2> QED
      BY <1>2, <2>1, <2>2 DEF Init, ControlsOK
  <1>7. ShownOK /\ ShownNamed
    BY DEF Init, ShownOK, ShownNamed
  <1>5. SavingOK /\ SavingNamed
    BY NoAnswerIsOne DEF Init, SavingOK, SavingNamed, NotSaving, SavingsOn, NoAnswer
  <1>6. RequestsOK /\ RequestsNamed
    <2>1. PICK first : first = [ IdleRequest EXCEPT !.about = controls, !.waiting = Statements[screen] ]
      OBVIOUS
    <2>2. /\ first \in RequestsOn(screen) /\ IdleRequest \in RequestsOn(screen)
          /\ first.answer.items = {} /\ IdleRequest.answer.items = {}
      BY <1>2, <2>1, NoAnswerIsOne DEF IdleRequest, RequestsOn, NoAnswer
    <2>3. requests = [ r \in Slots |->
                         IF screen \in {"list", "fleet"} /\ r = 1 THEN first ELSE IdleRequest ]
      BY <2>1 DEF Init
    <2> QED
      BY <2>2, <2>3 DEF RequestsOK, RequestsNamed
  <1> QED
    BY <1>2, <1>3, <1>4, <1>5, <1>6, <1>7 DEF TypeInv, ScreenOK, TablesOK

LEMMA StepTyped == TypeInv /\ [Next]_vars => TypeInv'
  <1> SUFFICES ASSUME TypeInv, [Next]_vars PROVE TypeInv'
    OBVIOUS
  <1>1. CASE UNCHANGED vars
    BY <1>1, Untouched, TypedStep DEF vars, tables, panel, asked
  <1>2. CASE Next
    BY <1>2, ElsewhereTyped, UserTyped, SavesTyped, RequestTyped DEF Next
  <1> QED
    BY <1>1, <1>2

\* The screen and the tables have the types of the code, always.
THEOREM TypeCorrect == Spec => []TypeInv
  BY InitTyped, StepTyped, PTL DEF Spec

-----------------------------------------------------------------------------
(***************************************************************************)
(* The answer on the screen belongs to the controls.                       *)
(*                                                                         *)
(* Every step is one of five: it leaves the requests under way, the        *)
(* controls and what is shown for them alone (Touches); it changes the     *)
(* controls, and a timer is due or there is nothing to show (Edits); it    *)
(* sends a request, that is late or for the controls (Sends); a request    *)
(* ends (Ends); or a 409 takes the place of an answer (Conflicts).         *)
(***************************************************************************)
LineKept ==
  \A r \in Slots : /\ requests'[r].about = requests[r].about
                   /\ requests'[r].late = requests[r].late
                   /\ requests'[r].before = requests[r].before

Touches ==
  /\ UNCHANGED << screen, controls, timer, stray >> /\ LineKept
  /\ shown' # None => shown # None /\ shown'.about = shown.about

Edits == screen' = screen /\ LineKept /\ (timer' \/ ~ Settled')

Sends ==
  /\ screen' = screen
  /\ \E about, late :
       /\ about # None /\ Send(about, late)
       /\ ~ late /\ ~ timer' /\ Settled' => about = controls'

Ends(r) ==
  /\ UNCHANGED << screen, controls, timer >>
  /\ requests[r].about # None /\ requests' = Ended(r)
  /\ \/ stray'
     \/ stray' = requests[r].late /\ shown'.about = requests[r].about

ConflictShown ==
  /\ UNCHANGED << screen, controls, timer >> /\ LineKept
  /\ ~ stray' => shown'.about = controls

LEMMA CommitTouches ==
  ASSUME TypeInv, NEW books, NEW fleet, Commit(books, fleet)
  PROVE  Touches
  <1>1. ASSUME NEW r \in Slots
        PROVE  /\ requests'[r].about = requests[r].about /\ requests'[r].late = requests[r].late
               /\ requests'[r].before = requests[r].before
    <2>1. requests[r] \in RequestsOn(screen)
      BY DEF TypeInv, RequestsOK
    <2>2. \E c \in BOOLEAN : requests'[r] = [ requests[r] EXCEPT !.changed = c ]
      BY <2>1 DEF Commit, RequestsOn
    <2> QED
      BY <2>1, <2>2 DEF RequestsOn
  <1>2. shown' # None => shown # None /\ shown'.about = shown.about
    BY DEF Commit, TypeInv, ShownOK, ShownOn
  <1> QED
    BY <1>1, <1>2 DEF Commit, Touches, LineKept

\* A step of the save alone.
LEMMA SaveTouches ==
  ASSUME UNCHANGED << screen, tables, panel, requests >>
  PROVE  Touches
  BY DEF tables, panel, Touches, LineKept

LEMMA EditFormEdits ==
  ASSUME NEW c, EditForm(c)
  PROVE  Edits
  BY DEF EditForm, Edits, LineKept, asked, Settled, RestartsTimer

LEMMA ElsewhereTouches ==
  ASSUME TypeInv, Elsewhere
  PROVE  Touches
  BY CommitTouches DEF Elsewhere, BookElsewhere, ChangeElsewhere, VehicleElsewhere

LEMMA UserForms ==
  ASSUME TypeInv, TypeInv', User
  PROVE  Touches \/ Edits \/ Sends
  <1>1. controls # None /\ controls' # None
    BY SettingsAreNotNone DEF TypeInv, ScreenOK, ControlsOK
  <1>2. CASE ChangeFilter \/ TurnPage
    <2>1. PICK c : Query(c)
      BY <1>2 DEF ChangeFilter, TurnPage
    <2> QED
      BY <1>1, <2>1 DEF Query, Sends
  <1>3. CASE TypeVoucher
    BY <1>3 DEF TypeVoucher, Edits, LineKept, asked
  <1>4. CASE ChangeTrip \/ ChooseResource \/ TakeAlternative
    BY <1>4, EditFormEdits DEF ChangeTrip, ChooseResource, TakeAlternative
  <1>5. CASE OpenForm
    BY <1>5 DEF OpenForm, EmptyForm, Settled, Complete, Edits, LineKept, asked
  <1>6. CASE CloseForm
    BY <1>6 DEF CloseForm, EmptyForm, Settled, Complete, Edits, LineKept, asked
  <1>7. CASE ChangeDashboard
    BY <1>7 DEF ChangeDashboard, Edits, LineKept, asked
  <1>8. CASE ChangeReportType \/ ChangeReportFilters
    BY <1>8 DEF ChangeReportType, ChangeReportFilters, Settled, Edits, LineKept, asked
  <1>9. CASE TimerFires
    BY <1>1, <1>9 DEF TimerFires, Sends
  <1>10. CASE PressReload \/ PressPreview
    BY <1>1, <1>10 DEF PressReload, PressPreview, Reload, Sends
  <1>11. CASE Submit \/ AskAction \/ Confirm \/ Dismiss \/ SaveVehicle \/ AskExport
    BY <1>11, SaveTouches DEF Submit, AskAction, Confirm, Dismiss, SaveVehicle, AskExport, asked
  <1> QED
    BY <1>2, <1>3, <1>4, <1>5, <1>6, <1>7, <1>8, <1>9, <1>10, <1>11 DEF User

LEMMA SavesForms ==
  ASSUME TypeInv, SaveIsCurrent, Saves
  PROVE  Touches \/ Edits \/ Sends \/ ConflictShown
  <1>1. CASE ServeSubmit
    BY <1>1, CommitTouches, SaveTouches DEF ServeSubmit, asked
  <1>2. CASE ServeStatus
    BY <1>2, CommitTouches, SaveTouches DEF ServeStatus, asked
  <1>3. CASE ServeVehicle
    BY <1>3, CommitTouches, SaveTouches DEF ServeVehicle, asked
  <1>4. CASE DeliverBooked
    BY <1>4 DEF DeliverBooked, EmptyForm, Settled, Complete, Edits, LineKept, asked
  <1>5. CASE DeliverSaved
    BY <1>5 DEF DeliverSaved, SaveIsCurrent, TypeInv, SavingOK, Sends
  <1>6. CASE DeliverConflict
    BY <1>6 DEF DeliverConflict, SaveIsCurrent, ConflictShown, LineKept, asked
  <1>7. CASE DeliverRefused \/ GenerateExport \/ RefuseExport \/ FailExport
    BY <1>7, SaveTouches DEF DeliverRefused, GenerateExport, RefuseExport, FailExport, asked
  <1> QED
    BY <1>1, <1>2, <1>3, <1>4, <1>5, <1>6, <1>7 DEF Saves

LEMMA RequestForms ==
  ASSUME TypeInv, NEW r \in Slots, Serve(r) \/ Deliver(r) \/ Fail(r)
  PROVE  Touches \/ Ends(r)
  <1>1. CASE Serve(r)
    <2>1. \E waiting, a : requests' = [ requests EXCEPT ![r].waiting = waiting, ![r].answer = a ]
      BY <1>1 DEF Serve
    <2>2. LineKept
      BY <2>1 DEF TypeInv, RequestsOK, RequestsOn, LineKept
    <2> QED
      BY <1>1, <2>2 DEF Serve, Touches, panel
  <1>2. CASE Deliver(r)
    BY <1>2 DEF Deliver, Ends
  <1>3. CASE Fail(r)
    BY <1>3 DEF Fail, Ends
  <1> QED
    BY <1>1, <1>2, <1>3

LEMMA StepForms ==
  ASSUME TypeInv, TypeInv', SaveIsCurrent, [Next]_vars
  PROVE  Touches \/ Edits \/ Sends \/ ConflictShown \/ \E r \in Slots : Ends(r)
  <1>1. CASE UNCHANGED vars
    BY <1>1, SaveTouches DEF vars, asked
  <1>2. CASE Next
    BY <1>2, ElsewhereTouches, UserForms, SavesForms, RequestForms DEF Next
  <1> QED
    BY <1>1, <1>2

LEMMA SameInFlight ==
  ASSUME LineKept
  PROVE  InFlight' = InFlight /\ \A r \in Slots : Newest(r)' <=> Newest(r)
  BY DEF LineKept, InFlight, Newest

LEMMA KeptOrder ==
  ASSUME Ordered, LineKept
  PROVE  Ordered'
  BY SameInFlight DEF Ordered, LineKept, InFlight

LEMMA TouchesFollow ==
  ASSUME FollowInv, Touches
  PROVE  Ordered' /\ NewestIsCurrent' /\ ShownIsCurrent'
  <1>1. LineKept /\ (Settled' <=> Settled) /\ timer' = timer /\ controls' = controls /\ stray' = stray
    BY DEF Touches, Settled
  <1>2. Ordered'
    BY <1>1, KeptOrder DEF FollowInv
  <1>3. NewestIsCurrent'
    BY <1>1, SameInFlight DEF FollowInv, NewestIsCurrent, LineKept, InFlight
  <1>4. ShownIsCurrent'
    BY <1>1, SameInFlight DEF FollowInv, ShownIsCurrent, Touches
  <1> QED
    BY <1>2, <1>3, <1>4

LEMMA EditsFollow ==
  ASSUME FollowInv, Edits
  PROVE  Ordered' /\ NewestIsCurrent' /\ ShownIsCurrent'
  <1>1. Ordered'
    BY KeptOrder DEF FollowInv, Edits
  <1> QED
    BY <1>1 DEF Edits, NewestIsCurrent, ShownIsCurrent

LEMMA ConflictFollows ==
  ASSUME FollowInv, ConflictShown
  PROVE  Ordered' /\ NewestIsCurrent' /\ ShownIsCurrent'
  <1>1. LineKept /\ (Settled' <=> Settled) /\ timer' = timer /\ controls' = controls
    BY DEF ConflictShown, Settled
  <1>2. Ordered'
    BY <1>1, KeptOrder DEF FollowInv
  <1>3. NewestIsCurrent'
    BY <1>1, SameInFlight DEF FollowInv, NewestIsCurrent, LineKept, InFlight
  <1>4. ShownIsCurrent'
    BY <1>1 DEF ConflictShown, ShownIsCurrent
  <1> QED
    BY <1>2, <1>3, <1>4

LEMMA SendsFollow ==
  ASSUME TypeInv, FollowInv, Sends
  PROVE  Ordered' /\ NewestIsCurrent' /\ ShownIsCurrent'
  <1>1. PICK about, late :
          /\ about # None /\ Send(about, late)
          /\ ~ late /\ ~ timer' /\ Settled' => about = controls'
    BY DEF Sends
  <1>2. PICK new : new = FreeSlot
    OBVIOUS
  <1>3. new \in Slots \ InFlight
    BY <1>1, <1>2, FreeSlotIsFree DEF Send
  <1>4. /\ \A q \in Slots : q # new => requests'[q] = requests[q]
        /\ requests'[new].about = about /\ requests'[new].late = late
        /\ requests'[new].before = InFlight
    BY <1>1, <1>2, <1>3 DEF Send, IdleRequest, TypeInv, RequestsOK
  <1>5. InFlight' = InFlight \cup {new} /\ new \notin InFlight
    BY <1>1, <1>3, <1>4 DEF InFlight
  <1>6. Ordered'
    <2>1. ASSUME NEW q \in Slots
          PROVE  requests'[q].before \subseteq InFlight' \ {q}
      <3>1. CASE q = new
        BY <1>4, <1>5, <3>1
      <3>2. CASE q # new
        BY <1>4, <1>5, <3>2 DEF FollowInv, Ordered
      <3> QED
        BY <3>1, <3>2
    <2>2. ASSUME NEW q \in InFlight', NEW p \in InFlight', q # p
          PROVE  q \in requests'[p].before \/ p \in requests'[q].before
      <3>1. q \in Slots /\ p \in Slots
        BY DEF InFlight
      <3>2. CASE q = new \/ p = new
        BY <1>4, <1>5, <2>2, <3>2
      <3>3. CASE q # new /\ p # new
        BY <1>4, <1>5, <2>2, <3>1, <3>3 DEF FollowInv, Ordered
      <3> QED
        BY <3>2, <3>3
    <2> QED
      BY <2>1, <2>2 DEF Ordered
  <1>7. NewestIsCurrent'
    <2>1. ASSUME NEW r \in InFlight', Newest(r)', r # new
          PROVE  FALSE
      <3>1. requests[r].before \subseteq InFlight
        BY <1>5, <2>1 DEF FollowInv, Ordered, InFlight
      <3>2. new \in requests'[r].before
        BY <1>5, <2>1 DEF Newest
      <3>3. requests'[r] = requests[r]
        BY <1>4, <2>1 DEF InFlight
      <3> QED
        BY <1>5, <3>1, <3>2, <3>3
    <2> QED
      BY <1>1, <1>4, <2>1 DEF NewestIsCurrent
  <1>8. ShownIsCurrent'
    BY <1>5 DEF ShownIsCurrent
  <1> QED
    BY <1>6, <1>7, <1>8

LEMMA EndsFollow ==
  ASSUME TypeInv, FollowInv, NEW r \in Slots, Ends(r)
  PROVE  Ordered' /\ NewestIsCurrent' /\ ShownIsCurrent'
  <1>1. requests' = Ended(r) /\ r \in InFlight
    BY DEF Ends, InFlight
  <1>2. requests'[r].about = None /\ requests'[r].before = {}
    BY <1>1 DEF Ended, IdleRequest
  <1>3. ASSUME NEW q \in Slots, q # r
        PROVE  /\ requests'[q].about = requests[q].about
               /\ ~ requests'[q].late => ~ requests[q].late /\ q \notin requests[r].before
               /\ requests'[q].before = requests[q].before \ {r}
    <2>1. requests[q] \in RequestsOn(screen)
      BY DEF TypeInv, RequestsOK
    <2>2. PICK late, before :
            /\ late = (requests[q].late \/ q \in requests[r].before)
            /\ before = requests[q].before \ {r}
      OBVIOUS
    <2>3. requests'[q] = [ requests[q] EXCEPT !.late = late, !.before = before ]
      BY <1>1, <1>3, <2>2 DEF Ended
    <2>4. /\ requests'[q].about = requests[q].about /\ requests'[q].late = late
          /\ requests'[q].before = before
      BY <2>1, <2>3 DEF RequestsOn
    <2> QED
      BY <2>2, <2>4
  <1>4. InFlight' = InFlight \ {r}
    BY <1>2, <1>3 DEF InFlight
  <1>5. Ordered'
    <2>1. ASSUME NEW q \in Slots
          PROVE  requests'[q].before \subseteq InFlight' \ {q}
      BY <1>2, <1>3, <1>4, <2>1 DEF FollowInv, Ordered
    <2>2. ASSUME NEW q \in InFlight', NEW p \in InFlight', q # p
          PROVE  q \in requests'[p].before \/ p \in requests'[q].before
      BY <1>3, <1>4, <2>2 DEF FollowInv, Ordered, InFlight
    <2> QED
      BY <2>1, <2>2 DEF Ordered
  <1>6. Settled' <=> Settled
    BY DEF Ends, Settled
  <1>7. NewestIsCurrent'
    <2> SUFFICES ASSUME NEW q \in InFlight', Newest(q)', ~ requests'[q].late, ~ timer', Settled'
                 PROVE  requests'[q].about = controls'
      BY DEF NewestIsCurrent
    <2>1. q \in InFlight /\ q # r /\ q \in Slots
      BY <1>4 DEF InFlight
    <2>2. ~ requests[q].late /\ q \notin requests[r].before
      BY <1>3, <2>1
    <2>3. r \in requests[q].before
      BY <1>1, <2>1, <2>2 DEF FollowInv, Ordered
    <2>4. Newest(q)
      BY <1>3, <1>4, <2>1, <2>3 DEF Newest
    <2> QED
      BY <1>3, <1>6, <2>1, <2>2, <2>4 DEF FollowInv, NewestIsCurrent, Ends
  <1>8. ShownIsCurrent'
    <2> SUFFICES ASSUME InFlight' = {}, ~ timer', Settled', ~ stray'
                 PROVE  shown'.about = controls'
      BY DEF ShownIsCurrent
    <2>1. shown'.about = requests[r].about /\ ~ requests[r].late
      BY DEF Ends
    <2>2. Newest(r)
      BY <1>4 DEF Newest
    <2> QED
      BY <1>1, <1>6, <2>1, <2>2 DEF FollowInv, NewestIsCurrent, Ends
  <1> QED
    BY <1>5, <1>7, <1>8

\* A save belongs to the controls until they change.
LEMMA SaveFollows ==
  ASSUME TypeInv, SaveIsCurrent, [Next]_vars
  PROVE  SaveIsCurrent'
  <1>1. ASSUME screen' = screen, saving' = Outlived
        PROVE  SaveIsCurrent'
    BY <1>1 DEF Outlived, SaveIsCurrent, TypeInv, SavingOK, SavingsOn
  <1>2. ASSUME saving'.stage = "none"
        PROVE  SaveIsCurrent'
    BY <1>2 DEF SaveIsCurrent
  <1>3. ASSUME UNCHANGED << screen, controls >>, saving'.stage # "none" => saving.stage # "none",
               saving'.about = saving.about, saving'.outlived = saving.outlived
        PROVE  SaveIsCurrent'
    BY <1>3 DEF SaveIsCurrent
  <1>4. ASSUME NEW target, UNCHANGED << screen, controls >>, Start(controls, target),
               screen # "dashboard"
        PROVE  SaveIsCurrent'
    BY <1>4 DEF SaveIsCurrent, Start, NotSaving
  <1>5. ASSUME UNCHANGED << screen, controls >>, saving.stage # "none",
               \/ \E answer, details : Answered(answer, details)
               \/ saving' = [ saving EXCEPT !.stage = "generated" ]
        PROVE  SaveIsCurrent'
    <2>1. saving'.about = saving.about /\ saving'.outlived = saving.outlived
      BY <1>5 DEF Answered, TypeInv, SavingOK, SavingsOn
    <2> QED
      BY <1>3, <1>5, <2>1
  <1>6. ASSUME UNCHANGED << screen, controls >>, NEW dialog, saving' = [ saving EXCEPT !.dialog = dialog ]
        PROVE  SaveIsCurrent'
    <2>1. /\ saving'.about = saving.about /\ saving'.outlived = saving.outlived
          /\ saving'.stage = saving.stage
      BY <1>6 DEF TypeInv, SavingOK, SavingsOn
    <2> QED
      BY <1>3, <1>6, <2>1
  <1>7. CASE UNCHANGED vars
    BY <1>3, <1>7 DEF vars, panel
  <1>8. CASE Elsewhere
    BY <1>3, <1>8 DEF Elsewhere, BookElsewhere, ChangeElsewhere, VehicleElsewhere, Commit
  <1>9. CASE User
    <2>1. CASE ChangeFilter \/ TurnPage
      BY <1>1, <2>1 DEF ChangeFilter, TurnPage, Query
    <2>2. CASE TypeVoucher
      BY <1>3, <2>2 DEF TypeVoucher
    <2>3. CASE ChangeTrip \/ ChooseResource \/ TakeAlternative
      BY <1>1, <2>3 DEF ChangeTrip, ChooseResource, TakeAlternative, EditForm
    <2>4. CASE OpenForm \/ CloseForm \/ ChangeReportType \/ ChangeReportFilters \/ TimerFires
      BY <1>1, <2>4 DEF OpenForm, CloseForm, ChangeReportType, ChangeReportFilters, TimerFires
    <2>5. CASE ChangeDashboard
      BY <1>2, <2>5 DEF ChangeDashboard, SaveIsCurrent
    <2>6. CASE PressReload \/ PressPreview
      BY <1>3, <2>6 DEF PressReload, PressPreview, Reload
    <2>7. CASE Submit \/ Confirm \/ SaveVehicle \/ AskExport
      BY <1>4, <2>7 DEF Submit, Confirm, SaveVehicle, AskExport, panel
    <2>8. CASE AskAction \/ Dismiss
      BY <1>6, <2>8 DEF AskAction, Dismiss, panel
    <2> QED
      BY <1>9, <2>1, <2>2, <2>3, <2>4, <2>5, <2>6, <2>7, <2>8 DEF User
  <1>10. CASE Saves
    <2>1. CASE ServeSubmit
      BY <1>5, <2>1 DEF ServeSubmit, Commit, panel
    <2>2. CASE ServeStatus
      BY <1>5, <2>2 DEF ServeStatus, Commit, panel
    <2>3. CASE ServeVehicle
      BY <1>5, <2>3 DEF ServeVehicle, Commit, panel
    <2>4. CASE GenerateExport
      BY <1>5, <2>4 DEF GenerateExport, panel
    <2>5. CASE DeliverBooked \/ DeliverSaved \/ DeliverConflict \/ DeliverRefused
               \/ RefuseExport \/ FailExport
      BY <1>2, <2>5 DEF DeliverBooked, DeliverSaved, DeliverConflict, DeliverRefused,
                        RefuseExport, FailExport, Over, NotSaving
    <2> QED
      BY <1>10, <2>1, <2>2, <2>3, <2>4, <2>5 DEF Saves
  <1>11. CASE \E r \in Slots : Serve(r) \/ Deliver(r) \/ Fail(r)
    BY <1>3, <1>11 DEF Serve, Deliver, Fail, panel
  <1> QED
    BY <1>7, <1>8, <1>9, <1>10, <1>11 DEF Next

LEMMA InitFollows == Init => FollowInv
  <1> SUFFICES ASSUME Init PROVE FollowInv
    OBVIOUS
  <1>1. \A r \in Slots : requests[r].before = {} /\ requests[r].about \in {None, controls}
    BY DEF Init, IdleRequest
  <1>2. \A q, r \in InFlight : q = r
    BY DEF Init, IdleRequest, InFlight
  <1>3. Ordered
    BY <1>1, <1>2 DEF Ordered
  <1>4. NewestIsCurrent
    BY <1>1 DEF NewestIsCurrent, InFlight
  <1>5. SaveIsCurrent /\ ShownIsCurrent
    BY DEF Init, NotSaving, SaveIsCurrent, ShownIsCurrent
  <1> QED
    BY <1>3, <1>4, <1>5 DEF FollowInv

LEMMA StepFollows == TypeInv /\ TypeInv' /\ FollowInv /\ [Next]_vars => FollowInv'
  <1> SUFFICES ASSUME TypeInv, TypeInv', FollowInv, [Next]_vars PROVE FollowInv'
    OBVIOUS
  <1>1. SaveIsCurrent'
    BY SaveFollows DEF FollowInv
  <1>2. Touches \/ Edits \/ Sends \/ ConflictShown \/ \E r \in Slots : Ends(r)
    BY StepForms DEF FollowInv
  <1>3. Ordered' /\ NewestIsCurrent' /\ ShownIsCurrent'
    BY <1>2, TouchesFollow, EditsFollow, SendsFollow, ConflictFollows, EndsFollow
  <1> QED
    BY <1>1, <1>3 DEF FollowInv

\* The requests under way are ordered, and the newest one that is not late is for
\* the controls: what a debounced effect, a turn of the page or a reload sends.
THEOREM RequestsInOrder == Spec => [](TypeInv /\ FollowInv)
  <1>1. Init => TypeInv /\ FollowInv
    BY InitTyped, InitFollows
  <1>2. TypeInv /\ FollowInv /\ [Next]_vars => (TypeInv /\ FollowInv)'
    BY StepTyped, StepFollows
  <1> QED
    BY <1>1, <1>2, PTL DEF Spec

\* Every answer on the screen belongs to the controls beside it once nothing is
\* pending, as long as the answers came in order.
THEOREM FollowsControls == Spec => []ScreenFollowsControls
  <1>1. TypeInv /\ FollowInv => ScreenFollowsControls
    BY DEF FollowInv, ShownIsCurrent, ScreenFollowsControls, Settled
  <1> QED
    BY <1>1, RequestsInOrder, PTL

\* Screen, tables, requests and answers have the types that the pages and the
\* endpoints give them, always.
THEOREM DeskTypes == Spec => []TypeOK
  <1>1. TypeInv /\ FollowInv => TypeOK
    <2> SUFFICES ASSUME TypeInv, FollowInv PROVE TypeOK
      OBVIOUS
    <2>1. \A b \in BookingIds : bookings[b] # None => bookings[b] \in RowRecords /\ bookings[b].id = b
      BY DEF TypeInv, TablesOK, Booked
    <2>2. \A v \in Vehicles : vehicles[v].deleted => vehicles[v].status = "INACTIVE"
      BY DEF TypeInv, TablesOK, Garage
    <2>3. \A r \in Slots : /\ requests[r].waiting \subseteq Statements[screen]
                           /\ requests[r].answer \in AnswerRecords
                           /\ requests[r].before \subseteq Slots \ {r}
      BY DEF TypeInv, RequestsOK, RequestsOn, FollowInv, Ordered, InFlight
    <2>4. shown # None => shown.answer \in AnswerRecords
      BY DEF TypeInv, ShownOK, ShownOn
    <2> QED
      BY <2>1, <2>2, <2>3, <2>4 DEF TypeOK, TypeInv, ScreenOK, ControlsOK, SettableOn
  <1> QED
    BY <1>1, RequestsInOrder, PTL
-----------------------------------------------------------------------------
(***************************************************************************)
(* The queries agree with one another                                      *)
(***************************************************************************)
LEMMA NoFilterTakesAll == \A rows : Matching(NoFilter, rows) = rows
  BY DEF Matching, NoFilter

LEMMA WindowIsTyped ==
  ASSUME NEW ask \in FormRecords
  PROVE  /\ ResolveWindow(ask.tripType, ask.startAt, ask.endAt, Settings).from \in Int
         /\ ResolveWindow(ask.tripType, ask.startAt, ask.endAt, Settings).to \in Int
  BY DeskAssumption DEF FormRecords, ResolveWindow

\* What the check calls a conflict.
LEMMA KindsOfConflict ==
  ASSUME NEW ask \in FormRecords, NEW rows
  PROVE  /\ "vehicle" \in ConflictKinds(ask, Settings, rows)
              <=> \E row \in InTheWay(ask, Settings, rows) : row.vehicle = ask.vehicle
         /\ "driver" \in ConflictKinds(ask, Settings, rows)
              <=> \E row \in InTheWay(ask, Settings, rows) : row.driver = ask.driver
  BY DEF ConflictKinds

\* The vehicle and the driver of an ask do not matter to what is in its way.
LEMMA WayOfOther ==
  ASSUME NEW ask, NEW other, other.editing = ask.editing, other.tripType = ask.tripType,
         other.startAt = ask.startAt, other.endAt = ask.endAt
  PROVE  InTheWay(other, Settings, Rows) = InTheWay(ask, Settings, Rows)
  BY DEF InTheWay

LEMMA TimelineAgrees == TypeInv => TimelineTellsConflicts
  <1> SUFFICES ASSUME TypeInv, NEW ask \in Asks,
                      NEW listed \in TimelineVehicles(Any, vehicles),
                      NEW bars \in Bars(NoFilter,
                                        ResolveWindow(ask.tripType, ask.startAt, ask.endAt, Settings), Rows),
                      NEW v \in listed
               PROVE  LET window == ResolveWindow(ask.tripType, ask.startAt, ask.endAt, Settings)
                          taken == "vehicle" \in ConflictKinds([ ask EXCEPT !.vehicle = v ], Settings, Rows)
                          busyRow == \E row \in TimelineRow(v, bars) : Blocking(row) /\ row.id # ask.editing IN
                      /\ busyRow => taken
                      /\ taken => busyRow \/ Cardinality(OverlapsWindow(window, Rows)) > Limits.bars
    BY DEF TimelineTellsConflicts
  <1> DEFINE window == ResolveWindow(ask.tripType, ask.startAt, ask.endAt, Settings)
             meeting == OverlapsWindow(window, Rows)
             ofVehicle == { row \in meeting : row.vehicle = v }
             other == [ ask EXCEPT !.vehicle = v ]
  <1>1. ask \in FormRecords /\ v \in Vehicles
    BY DeskAssumption, RowsRead
  <1>2. /\ other \in FormRecords /\ other.vehicle = v
        /\ other.editing = ask.editing /\ other.tripType = ask.tripType
        /\ other.startAt = ask.startAt /\ other.endAt = ask.endAt
    BY <1>1 DEF FormRecords
  <1>3. window.from \in Int /\ window.to \in Int
    BY <1>1, WindowIsTyped
  <1>4. \A row \in Rows : row.from \in Int /\ row.to \in Int
    BY RowsAreBookings DEF RowRecords
  <1>5. ofVehicle = { row \in Rows : row.from < window.to /\ row.to > window.from /\ row.vehicle = v }
    BY DEF OverlapsWindow
  <1>6. InTheWay(ask, Settings, Rows)
          = { row \in Rows : /\ row.id # ask.editing /\ Blocking(row)
                             /\ window.from < row.to /\ window.to > row.from }
    BY DEF InTheWay, OverlappingRows, HasHalfOpenOverlap
  <1>7. InTheWay(other, Settings, Rows) = InTheWay(ask, Settings, Rows)
    BY <1>2, WayOfOther
  <1>8. "vehicle" \in ConflictKinds(other, Settings, Rows)
          <=> \E row \in InTheWay(ask, Settings, Rows) : row.vehicle = v
    BY <1>2, <1>7, KindsOfConflict
  <1>9. bars \in First(meeting, Unordered(meeting), Limits.bars)
    BY NoFilterTakesAll DEF Bars
  <1>10. meeting \subseteq Rows
    BY DEF OverlapsWindow
  <1> HIDE DEF window, meeting, other
  <1>11. Limits.bars \in Nat /\ IsFiniteSet(meeting) /\ Cardinality(meeting) \in Nat
    BY <1>10, LimitsAssumption, IdsCount
  <1>12. bars \subseteq meeting /\ (Cardinality(meeting) <= Limits.bars => bars = meeting)
    BY <1>9, <1>11, FirstTakes
  <1>13. /\ TimelineRow(v, bars) \subseteq ofVehicle
         /\ Cardinality(meeting) > Limits.bars \/ TimelineRow(v, bars) = ofVehicle
    BY <1>11, <1>12 DEF TimelineRow
  <1> HIDE DEF ofVehicle
  <1>14. (\E row \in InTheWay(ask, Settings, Rows) : row.vehicle = v)
          <=> \E row \in ofVehicle : Blocking(row) /\ row.id # ask.editing
    BY <1>3, <1>4, <1>5, <1>6
  <1> QED
    BY <1>8, <1>13, <1>14 DEF window, meeting, other

\* The timeline and the availability check use the same windows, for every
\* calendar: they can differ only where more bookings meet the window than the
\* timeline takes.
THEOREM TimelineConflicts == Spec => []TimelineTellsConflicts
  BY TimelineAgrees, TypeCorrect, PTL

LEMMA AlternativesAgree == TypeInv => AlternativesBookable
  <1> SUFFICES ASSUME TypeInv, NEW ask \in Asks,
                      NEW free \in AlternativeVehicles(ask, 0, Settings, Rows, vehicles),
                      NEW idle \in AlternativeDrivers(ask, Settings, Rows, DriverRows),
                      NEW v \in free, NEW d \in idle
               PROVE  /\ Bookable(v)
                      /\ ConflictKinds([ ask EXCEPT !.vehicle = v, !.driver = d ], Settings, Rows) = {}
    BY DEF AlternativesBookable
  <1> DEFINE taken == [ ask EXCEPT !.vehicle = v, !.driver = d ]
  <1>0. v \in FreeVehicles(ask, 0, Settings, Rows, vehicles) /\ d \in FreeDrivers(ask, Settings, Rows, DriverRows)
    BY AlternativesListed
  <1>1. ask \in FormRecords /\ v \in Vehicles /\ d \in Drivers
    BY <1>0, DeskAssumption, RowsRead
  <1>2. /\ taken \in FormRecords /\ taken.vehicle = v /\ taken.driver = d
        /\ taken.editing = ask.editing /\ taken.tripType = ask.tripType
        /\ taken.startAt = ask.startAt /\ taken.endAt = ask.endAt
    BY <1>1 DEF FormRecords
  <1>3. Bookable(v)
    BY <1>0 DEF FreeVehicles, Bookable
  <1>4. InTheWay(taken, Settings, Rows) = InTheWay(ask, Settings, Rows)
    BY <1>2, WayOfOther
  <1>5. \A row \in InTheWay(ask, Settings, Rows) : row.vehicle # v /\ row.driver # d
    BY <1>0 DEF FreeVehicles, FreeDrivers
  <1> HIDE DEF taken
  <1>6. /\ "vehicle" \notin ConflictKinds(taken, Settings, Rows)
        /\ "driver" \notin ConflictKinds(taken, Settings, Rows)
    BY <1>2, <1>4, <1>5, KindsOfConflict
  <1>7. ConflictKinds(taken, Settings, Rows) \subseteq {"vehicle", "driver"}
    BY RowsRead
  <1> QED
    BY <1>3, <1>6, <1>7 DEF taken

\* Any pair of the alternatives can be booked, for every calendar.
THEOREM AlternativesCanBeBooked == Spec => []AlternativesBookable
  BY AlternativesAgree, TypeCorrect, PTL
-----------------------------------------------------------------------------
(***************************************************************************)
(* Untorn answers                                                          *)
(***************************************************************************)

\* The tables stay, and a request under way stays or is new.
Quiet ==
  /\ UNCHANGED << screen, bookings, vehicles >>
  /\ \A r \in Slots : requests'[r].about # None =>
       \/ requests'[r].waiting = Statements[screen]
       \/ /\ requests'[r].about = requests[r].about /\ requests'[r].answer = requests[r].answer
          /\ requests'[r].waiting = requests[r].waiting /\ requests'[r].changed = requests[r].changed

LEMMA SameTablesSameReads ==
  ASSUME UNCHANGED << screen, bookings, vehicles >>
  PROVE  \A statement, about, a : Current(statement, about, a)' <=> Current(statement, about, a)
  <1>1. Rows' = Rows
    BY DEF Rows
  <1>2. \A about : ListRows(about)' = ListRows(about) /\ FleetRows(about)' = FleetRows(about)
    BY <1>1 DEF ListRows, FleetRows
  <1> QED
    BY <1>1, <1>2 DEF Current

LEMMA QuietStaysCurrent ==
  ASSUME UntornIsCurrent, Quiet
  PROVE  UntornIsCurrent'
  <1> SUFFICES ASSUME NEW r \in InFlight', ~ requests'[r].changed,
                      NEW statement \in Statements[screen] \ requests'[r].waiting
               PROVE  Current(statement, requests[r].about, requests[r].answer)'
    BY DEF UntornIsCurrent, Quiet
  <1>1. /\ r \in InFlight
        /\ requests'[r].about = requests[r].about /\ requests'[r].answer = requests[r].answer
        /\ requests'[r].waiting = requests[r].waiting /\ requests'[r].changed = requests[r].changed
    BY DEF InFlight, Quiet
  <1>2. Current(statement, requests[r].about, requests[r].answer)
    BY <1>1 DEF UntornIsCurrent
  <1> QED
    BY <1>1, <1>2, SameTablesSameReads DEF Quiet
LEMMA CommitTears ==
  ASSUME TypeInv, NEW books, NEW fleet, Commit(books, fleet)
  PROVE  UntornIsCurrent'
  <1> SUFFICES ASSUME NEW r \in InFlight', ~ requests'[r].changed
               PROVE  requests'[r].waiting = Statements[screen] /\ screen' = screen
    BY DEF UntornIsCurrent
  <1>1. r \in Slots /\ requests[r] \in RequestsOn(screen)
    BY DEF InFlight, TypeInv, RequestsOK
  <1>2. PICK c \in BOOLEAN :
          c = (requests[r].about # None
                 /\ (requests[r].changed \/ requests[r].waiting # Statements[screen]))
    OBVIOUS
  <1>3. requests'[r] = [ requests[r] EXCEPT !.changed = c ]
    BY <1>1, <1>2 DEF Commit
  <1>4. /\ requests'[r].changed = c /\ requests'[r].about = requests[r].about
        /\ requests'[r].waiting = requests[r].waiting
    BY <1>1, <1>3 DEF RequestsOn
  <1> QED
    BY <1>2, <1>4 DEF InFlight, Commit

LEMMA ServeIsCurrent ==
  ASSUME TypeInv, UntornIsCurrent, NEW r \in Slots, Serve(r)
  PROVE  UntornIsCurrent'
  <1>1. PICK statement \in requests[r].waiting :
          \E a \in Read(statement, requests[r].about, requests[r].answer) :
            requests' = [ requests EXCEPT ![r].waiting = @ \ {statement}, ![r].answer = a ]
    BY DEF Serve
  <1>2. PICK a \in Read(statement, requests[r].about, requests[r].answer) :
          requests' = [ requests EXCEPT ![r].waiting = @ \ {statement}, ![r].answer = a ]
    BY <1>1
  <1>3. requests[r] \in RequestsOn(screen) /\ UNCHANGED << screen, bookings, vehicles >>
    BY DEF TypeInv, RequestsOK, Serve, tables
  <1>4. statement \in Statements[screen] /\ requests[r].answer \in AnswerRecords
    BY <1>3 DEF RequestsOn
  <1>5. /\ \A q \in Slots : q # r => requests'[q] = requests[q]
        /\ requests'[r].about = requests[r].about /\ requests'[r].changed = requests[r].changed
        /\ requests'[r].waiting = requests[r].waiting \ {statement} /\ requests'[r].answer = a
    BY <1>2, <1>3 DEF TypeInv, RequestsOK, RequestsOn
  <1>6. InFlight' = InFlight
    BY <1>5 DEF InFlight
  <1> SUFFICES ASSUME NEW q \in InFlight', ~ requests'[q].changed,
                      NEW other \in Statements[screen] \ requests'[q].waiting
               PROVE  Current(other, requests[q].about, requests[q].answer)'
    BY <1>3 DEF UntornIsCurrent
  <1>7. q \in InFlight /\ q \in Slots
    BY <1>6 DEF InFlight
  <1>8. CASE q # r
    <2>1. Current(other, requests[q].about, requests[q].answer)
      BY <1>5, <1>7, <1>8 DEF UntornIsCurrent
    <2> QED
      BY <1>3, <1>5, <1>7, <1>8, <2>1, SameTablesSameReads
  <1>9. CASE q = r
    <2>1. CASE other = statement
      <3>1. Current(other, requests[r].about, a)
        BY <1>4, <2>1, ReadsCurrent
      <3> QED
        BY <1>3, <1>5, <1>9, <3>1, SameTablesSameReads
    <2>2. CASE other # statement
      <3>1. Current(other, requests[r].about, requests[r].answer)
        BY <1>5, <1>7, <1>9, <2>2 DEF UntornIsCurrent
      <3>2. Current(other, requests[r].about, a)
        BY <1>4, <2>2, <3>1, ReadsCurrent
      <3> QED
        BY <1>3, <1>5, <1>9, <3>2, SameTablesSameReads
    <2> QED
      BY <2>1, <2>2
  <1> QED
    BY <1>8, <1>9

LEMMA SendIsQuiet ==
  ASSUME TypeInv, UNCHANGED << screen, bookings, vehicles >>, NEW about, NEW late, Send(about, late)
  PROVE  Quiet
  <1>1. FreeSlot \in Slots
    BY FreeSlotIsFree DEF Send
  <1>2. requests'[FreeSlot].waiting = Statements[screen]
    BY <1>1 DEF Send, IdleRequest, TypeInv, RequestsOK
  <1>3. \A q \in Slots : q # FreeSlot => requests'[q] = requests[q]
    BY <1>1 DEF Send, TypeInv, RequestsOK
  <1> QED
    BY <1>2, <1>3 DEF Quiet

LEMMA EndIsQuiet ==
  ASSUME TypeInv, UNCHANGED << screen, bookings, vehicles >>, NEW r \in Slots, requests' = Ended(r)
  PROVE  Quiet
  <1>1. requests'[r].about = None
    BY DEF Ended, IdleRequest
  <1>2. ASSUME NEW q \in Slots, q # r
        PROVE  /\ requests'[q].about = requests[q].about /\ requests'[q].answer = requests[q].answer
               /\ requests'[q].waiting = requests[q].waiting
               /\ requests'[q].changed = requests[q].changed
    <2>1. requests[q] \in RequestsOn(screen)
      BY DEF TypeInv, RequestsOK
    <2>2. \E late, before : requests'[q] = [ requests[q] EXCEPT !.late = late, !.before = before ]
      BY <1>2 DEF Ended
    <2> QED
      BY <2>1, <2>2 DEF RequestsOn
  <1> QED
    BY <1>1, <1>2 DEF Quiet

LEMMA NoRequestIsQuiet ==
  ASSUME UNCHANGED << screen, tables, requests >>
  PROVE  Quiet
  BY DEF tables, Quiet

LEMMA UserIsQuiet ==
  ASSUME TypeInv, User
  PROVE  Quiet
  <1>1. CASE ChangeFilter \/ TurnPage
    <2>1. PICK c : Query(c)
      BY <1>1 DEF ChangeFilter, TurnPage
    <2> QED
      BY <2>1, SendIsQuiet DEF Query, tables
  <1>2. CASE TimerFires \/ PressReload \/ PressPreview
    <2>1. \E c : Send(c, FALSE) /\ UNCHANGED << screen, tables >>
      BY <1>2 DEF TimerFires, PressReload, PressPreview, Reload
    <2> QED
      BY <2>1, SendIsQuiet DEF tables
  <1>3. CASE TypeVoucher \/ OpenForm \/ CloseForm \/ ChangeDashboard \/ ChangeReportType
               \/ ChangeReportFilters
    BY <1>3, NoRequestIsQuiet
    DEF TypeVoucher, OpenForm, CloseForm, ChangeDashboard, ChangeReportType, ChangeReportFilters, asked
  <1>4. CASE ChangeTrip \/ ChooseResource \/ TakeAlternative
    BY <1>4, NoRequestIsQuiet DEF ChangeTrip, ChooseResource, TakeAlternative, EditForm, asked
  <1>5. CASE Submit \/ AskAction \/ Confirm \/ Dismiss \/ SaveVehicle \/ AskExport
    BY <1>5, NoRequestIsQuiet DEF Submit, AskAction, Confirm, Dismiss, SaveVehicle, AskExport, asked
  <1> QED
    BY <1>1, <1>2, <1>3, <1>4, <1>5 DEF User

LEMMA SavesAreCurrent ==
  ASSUME TypeInv, UntornIsCurrent, Saves
  PROVE  UntornIsCurrent'
  <1>1. Quiet \/ \E books, fleet : Commit(books, fleet)
    <2>1. CASE ServeSubmit
      BY <2>1, NoRequestIsQuiet DEF ServeSubmit, asked
    <2>2. CASE ServeStatus
      BY <2>2, NoRequestIsQuiet DEF ServeStatus, asked
    <2>3. CASE ServeVehicle
      BY <2>3, NoRequestIsQuiet DEF ServeVehicle, asked
    <2>4. CASE DeliverSaved
      BY <2>4, SendIsQuiet DEF DeliverSaved, tables
    <2>5. CASE DeliverBooked \/ DeliverConflict \/ DeliverRefused \/ GenerateExport \/ RefuseExport
               \/ FailExport
      BY <2>5, NoRequestIsQuiet
      DEF DeliverBooked, DeliverConflict, DeliverRefused, GenerateExport, RefuseExport, FailExport, asked
    <2> QED
      BY <2>1, <2>2, <2>3, <2>4, <2>5 DEF Saves
  <1> QED
    BY <1>1, QuietStaysCurrent, CommitTears

LEMMA StepIsCurrent == TypeInv /\ UntornIsCurrent /\ [Next]_vars => UntornIsCurrent'
  <1> SUFFICES ASSUME TypeInv, UntornIsCurrent, [Next]_vars PROVE UntornIsCurrent'
    OBVIOUS
  <1>1. CASE UNCHANGED vars
    BY <1>1, NoRequestIsQuiet, QuietStaysCurrent DEF vars, asked
  <1>2. CASE Elsewhere
    BY <1>2, CommitTears DEF Elsewhere, BookElsewhere, ChangeElsewhere, VehicleElsewhere
  <1>3. CASE User
    BY <1>3, UserIsQuiet, QuietStaysCurrent
  <1>4. ASSUME NEW r \in Slots, Serve(r) \/ Deliver(r) \/ Fail(r)
        PROVE  UntornIsCurrent'
    <2>1. CASE Serve(r)
      BY <2>1, ServeIsCurrent
    <2>2. CASE Deliver(r) \/ Fail(r)
      BY <2>2, EndIsQuiet, QuietStaysCurrent DEF Deliver, Fail, tables
    <2> QED
      BY <1>4, <2>1, <2>2
  <1> QED
    BY <1>1, <1>2, <1>3, <1>4, SavesAreCurrent DEF Next
\* A page of a listing is full, unless it is the last one.
LEMMA PageIsFull ==
  ASSUME NEW S, IsFiniteSet(S), NEW s \in Listings(S), NEW page \in Nat \ {0}
  PROVE  Cardinality(PageOf(s, page, PageSize))
           = Min({PageSize, Max({0, Cardinality(S) - (page - 1) * PageSize})})
  <1>1. PageSize \in Nat \ {0}
    BY DeskAssumption
  <1>2. PICK n \in Nat : n = Cardinality(S)
    BY FS_CardinalityType
  <1>3. PICK skip \in Nat : skip = (page - 1) * PageSize
    BY <1>1
  <1>4. page * PageSize = skip + PageSize
    BY <1>1, <1>3
  <1>5. s \in [ 1..n -> S ] /\ \A i, j \in 1..n : i # j => s[i] # s[j]
    BY <1>2 DEF Listings
  <1>6. PICK last \in Int : last = IF skip + PageSize <= n THEN skip + PageSize ELSE n
    BY <1>1
  <1>7. PICK taken : taken = (skip + 1)..last
    OBVIOUS
  <1>8. taken = ((page - 1) * PageSize + 1)..(page * PageSize) \cap DOMAIN s
    BY <1>1, <1>3, <1>4, <1>5, <1>6, <1>7
  <1>9. PageOf(s, page, PageSize) = { s[i] : i \in taken }
    BY <1>8 DEF PageOf
  <1>10. taken \subseteq 1..n
    BY <1>5, <1>8
  <1> DEFINE at == [ i \in taken |-> s[i] ]
  <1>11. at \in Bijection(taken, { s[i] : i \in taken })
    BY <1>5, <1>10 DEF Bijection, Injection, Surjection, IsInjective
  <1>12. IsFiniteSet(taken) /\ Cardinality(taken) = IF skip + 1 > last THEN 0 ELSE last - skip
    BY <1>1, <1>6, <1>7, FS_Interval
  <1>13. Cardinality({ s[i] : i \in taken }) = Cardinality(taken)
    BY <1>11, <1>12, FS_Bijection DEF ExistsBijection
  <1>14. Max({0, n - skip}) = IF 0 >= n - skip THEN 0 ELSE n - skip
    BY MaxOfTwo
  <1>15. PICK left \in Nat : left = Max({0, n - skip})
    BY <1>14
  <1>16. Min({PageSize, left}) = IF PageSize <= left THEN PageSize ELSE left
    BY <1>1, MinOfTwo
  <1>17. Cardinality(taken) = Min({PageSize, left})
    BY <1>1, <1>6, <1>12, <1>14, <1>15, <1>16
  <1> QED
    BY <1>2, <1>3, <1>9, <1>13, <1>15, <1>17

LEMMA UntornAddsUp == TypeInv /\ UntornIsCurrent => UntornAnswersAddUp
  <1> SUFFICES ASSUME TypeInv, UntornIsCurrent, NEW r \in InFlight,
                      requests[r].waiting = {}, ~ requests[r].changed
               PROVE  LET q == requests[r]
                          a == q.answer
                          v == q.about.vehicle
                          d == q.about.driver IN
                      /\ screen \in {"list", "fleet"} =>
                           LET left == a.total - (q.about.page - 1) * PageSize IN
                           Cardinality(a.items) = Min({PageSize, Max({0, left})})
                      /\ screen = "dashboard" =>
                           /\ Cardinality(a.items) = Min({Limits.dispatch, a.total})
                           /\ \A bar \in a.bars :
                                \/ bar[2] \in a.vehicles \/ Cardinality(a.vehicles) = Limits.timelineVehicles
                                \/ vehicles[bar[2]].deleted
                                \/ q.about.vehicleStatus \notin {Any, vehicles[bar[2]].status}
                      /\ screen = "form" =>
                           /\ v # None /\ vehicles[v].status = "AVAILABLE" =>
                                IF "vehicle" \in a.conflict THEN v \notin a.vehicles
                                ELSE v \in a.vehicles \/ Cardinality(a.vehicles) = Limits.alternatives
                           /\ d # None =>
                                IF "driver" \in a.conflict THEN d \notin a.drivers
                                ELSE d \in a.drivers \/ Cardinality(a.drivers) = Limits.alternatives
    BY DEF UntornAnswersAddUp
  <1> DEFINE about == requests[r].about
             a == requests[r].answer
  <1>1. about \in SettableOn(screen) /\ DOMAIN vehicles = Vehicles
    BY DEF InFlight, TypeInv, RequestsOK, RequestsOn, TablesOK, Garage
  <1>2. \A statement \in Statements[screen] : Current(statement, about, a)
    BY DEF UntornIsCurrent
  <1>3. ASSUME screen = "list"
        PROVE  Cardinality(a.items) = Min({PageSize, Max({0, a.total - (about.page - 1) * PageSize})})
    <2>1. about.page \in Nat \ {0}
      BY <1>1, <1>3, DeskAssumption DEF SettableOn
    <2>2. Current("total", about, a) /\ Current("items", about, a)
      BY <1>2, <1>3 DEF Statements
    <2>3. a.total = Cardinality(ListRows(about))
      BY <1>3, <2>2 DEF Current
    <2>4. PICK s \in Orders(ListRows(about)) : a.items = Ids(PageOf(s, about.page, PageSize))
      BY <1>3, <2>2 DEF Current
    <2>5. s \in Listings(ListRows(about)) /\ ListRows(about) \subseteq Rows
      BY RowsRead DEF Orders
    <2>6. IsFiniteSet(ListRows(about))
      BY <2>5, IdsCount
    <2>7. Cardinality(PageOf(s, about.page, PageSize))
            = Min({PageSize, Max({0, Cardinality(ListRows(about)) - (about.page - 1) * PageSize})})
      BY <2>1, <2>5, <2>6, PageIsFull
    <2>8. Cardinality(Ids(PageOf(s, about.page, PageSize))) = Cardinality(PageOf(s, about.page, PageSize))
      BY <2>5, PagesOfTheirSet, IdsCount
    <2> QED
      BY <2>3, <2>4, <2>7, <2>8
  <1>4. ASSUME screen = "fleet"
        PROVE  Cardinality(a.items) = Min({PageSize, Max({0, a.total - (about.page - 1) * PageSize})})
    <2>1. about.page \in Nat \ {0}
      BY <1>1, <1>4, DeskAssumption DEF SettableOn
    <2>2. Current("total", about, a) /\ Current("items", about, a)
      BY <1>2, <1>4 DEF Statements
    <2>3. a.total = Cardinality(FleetRows(about))
      BY <1>4, <2>2 DEF Current
    <2>4. PICK s \in Listings(FleetRows(about)) : a.items = PageOf(s, about.page, PageSize)
      BY <1>4, <2>2 DEF Current
    <2>5. IsFiniteSet(FleetRows(about))
      BY RowsRead, FleetCount
    <2>6. Cardinality(PageOf(s, about.page, PageSize))
            = Min({PageSize, Max({0, Cardinality(FleetRows(about)) - (about.page - 1) * PageSize})})
      BY <2>1, <2>5, PageIsFull
    <2> QED
      BY <2>3, <2>4, <2>6
  <1>5. ASSUME screen = "dashboard"
        PROVE  /\ Cardinality(a.items) = Min({Limits.dispatch, a.total})
               /\ \A bar \in a.bars :
                    \/ bar[2] \in a.vehicles \/ Cardinality(a.vehicles) = Limits.timelineVehicles
                    \/ vehicles[bar[2]].deleted
                    \/ about.vehicleStatus \notin {Any, vehicles[bar[2]].status}
    <2>1. /\ Current("total", about, a) /\ Current("items", about, a)
          /\ Current("vehicles", about, a) /\ Current("bars", about, a)
      BY <1>2, <1>5 DEF Statements
    <2> DEFINE today == TodaysBookings(Today, Rows)
    <2>2. PICK dispatched \in TodaysDispatch(Today, Rows) : a.total = Cardinality(today) /\ a.items = Ids(dispatched)
      BY <1>5, <2>1 DEF Current
    <2>3. Cardinality(a.items) = Min({Limits.dispatch, a.total})
      <3>1. IsFiniteSet(today) /\ Limits.dispatch \in Nat
        BY RowsRead, IdsCount, LimitsAssumption
      <3>2. dispatched \in First(today, ByStart(today), Limits.dispatch)
        BY <2>2 DEF TodaysDispatch
      <3> HIDE DEF today
      <3>3. Cardinality(dispatched) = Min({Limits.dispatch, Cardinality(today)})
        BY <3>1, <3>2, FirstTakes
      <3>4. Cardinality(Ids(dispatched)) = Cardinality(dispatched)
        BY RowsRead, IdsCount
      <3> QED
        BY <2>2, <3>3, <3>4
    <2>4. a.vehicles \in TimelineVehicles(about.vehicleStatus, vehicles) /\ \A bar \in a.bars : bar[2] \in Vehicles
      BY <1>5, <2>1 DEF Current
    <2>5. a.vehicles = InServiceWith(about.vehicleStatus, vehicles)
            \/ Cardinality(a.vehicles) = Limits.timelineVehicles
      BY <2>4, TimelineListed
    <2> QED
      BY <1>1, <2>3, <2>4, <2>5 DEF InService, InServiceWith
  <1>6. ASSUME screen = "form"
        PROVE  /\ about.vehicle # None /\ vehicles[about.vehicle].status = "AVAILABLE" =>
                    IF "vehicle" \in a.conflict THEN about.vehicle \notin a.vehicles
                    ELSE about.vehicle \in a.vehicles \/ Cardinality(a.vehicles) = Limits.alternatives
               /\ about.driver # None =>
                    IF "driver" \in a.conflict THEN about.driver \notin a.drivers
                    ELSE about.driver \in a.drivers \/ Cardinality(a.drivers) = Limits.alternatives
    <2>1. about \in FormRecords
      BY <1>1, <1>6, FormsAreRecords
    <2>2. Current("conflict", about, a) /\ Current("alternatives", about, a)
      BY <1>2, <1>6 DEF Statements
    <2>3. /\ a.conflict = ConflictKinds(about, Settings, Rows)
          /\ a.vehicles \in AlternativeVehicles(about, SeatsFor(about), Settings, Rows, vehicles)
          /\ a.drivers \in AlternativeDrivers(about, Settings, Rows, DriverRows)
      BY <1>6, <2>2 DEF Current
    <2> DEFINE free == FreeVehicles(about, SeatsFor(about), Settings, Rows, vehicles)
               idle == FreeDrivers(about, Settings, Rows, DriverRows)
    <2>4. /\ a.vehicles \subseteq free /\ (a.vehicles = free \/ Cardinality(a.vehicles) = Limits.alternatives)
          /\ a.drivers \subseteq idle /\ (a.drivers = idle \/ Cardinality(a.drivers) = Limits.alternatives)
      BY <2>3, AlternativesListed
    <2>5. ASSUME about.vehicle # None, vehicles[about.vehicle].status = "AVAILABLE"
          PROVE  "vehicle" \in a.conflict <=> about.vehicle \notin free
      <3>1. about.vehicle \in Vehicles
        BY <2>1, <2>5 DEF FormRecords
      <3>2. ~ vehicles[about.vehicle].deleted /\ vehicles[about.vehicle].seats >= SeatsFor(about)
        BY <2>5, <3>1, DeskAssumption DEF SeatsFor, TypeInv, TablesOK, Garage
      <3>3. "vehicle" \in a.conflict
              <=> \E row \in InTheWay(about, Settings, Rows) : row.vehicle = about.vehicle
        BY <2>1, <2>3, KindsOfConflict
      <3>4. about.vehicle \in free
              <=> \A row \in InTheWay(about, Settings, Rows) : row.vehicle # about.vehicle
        BY <1>1, <2>5, <3>1, <3>2 DEF FreeVehicles
      <3> QED
        BY <3>3, <3>4
    <2>6. ASSUME about.driver # None
          PROVE  "driver" \in a.conflict <=> about.driver \notin idle
      <3>1. about.driver \in Drivers
        BY <2>1, <2>6 DEF FormRecords
      <3>2. "driver" \in a.conflict
              <=> \E row \in InTheWay(about, Settings, Rows) : row.driver = about.driver
        BY <2>1, <2>3, KindsOfConflict
      <3>3. about.driver \in idle
              <=> \A row \in InTheWay(about, Settings, Rows) : row.driver # about.driver
        BY <3>1 DEF FreeDrivers, DriverRows
      <3> QED
        BY <3>2, <3>3
    <2> HIDE DEF free, idle
    <2> QED
      BY <2>4, <2>5, <2>6
  <1> QED
    BY <1>3, <1>4, <1>5, <1>6

\* An answer whose statements nobody committed between adds up, on every screen,
\* whatever the limits of the statements.
THEOREM UntornAnswers == Spec => []UntornAnswersAddUp
  <1>1. Init => TypeInv /\ UntornIsCurrent
    <2>1. Init => UntornIsCurrent
      BY DEF Init, UntornIsCurrent, InFlight, IdleRequest
    <2> QED
      BY <2>1, InitTyped
  <1>2. TypeInv /\ UntornIsCurrent /\ [Next]_vars => (TypeInv /\ UntornIsCurrent)'
    BY StepTyped, StepIsCurrent
  <1> QED
    BY <1>1, <1>2, UntornAddsUp, PTL DEF Spec
-----------------------------------------------------------------------------
(***************************************************************************)
(* The reports                                                             *)
(***************************************************************************)
Picked(s) == CHOOSE x \in s : TRUE

\* g sums the booking counts of used over the subsets of S, one by one.
Sums(g, used, S) ==
  g = [ s \in SUBSET S |->
          IF s = {} THEN 0 ELSE used[Picked(s)].bookingCount + g[s \ {Picked(s)}] ]

BookingCounts(S, used) == SumOver(S, LAMBDA v : used[v].bookingCount)

LEMMA SumUnfolds ==
  ASSUME NEW S, NEW used, NEW h, Sums(h, used, S)
  PROVE  \E g : Sums(g, used, S) /\ BookingCounts(S, used) = g[S]
  <1> DEFINE iter == CHOOSE g : Sums(g, used, S)
  <1>1. Sums(iter, used, S)
    OBVIOUS
  <1>2. BookingCounts(S, used) = iter[S]
    BY DEF BookingCounts, SumOver, MapThenSumSet, MapThenFoldSet, Sums, Picked
  <1> QED
    BY <1>1, <1>2

\* There is one way to sum: two ways have no smallest set they differ on.
LEMMA SumsAreOne ==
  ASSUME NEW S, IsFiniteSet(S), NEW used, NEW g, Sums(g, used, S), NEW h, Sums(h, used, S)
  PROVE  g[S] = h[S]
  <1> SUFFICES ASSUME g[S] # h[S] PROVE FALSE
    OBVIOUS
  <1> DEFINE differ == { s \in SUBSET S : g[s] # h[s] }
  <1>1. IsWellFoundedOn(StrictSubsetOrdering(S), SUBSET S)
    BY FS_StrictSubsetOrderingWellFounded, FS_FiniteSubsetsOfFinite
  <1>2. S \in differ /\ differ \subseteq SUBSET S
    OBVIOUS
  <1>3. PICK s \in differ : \A t \in differ : ~ (<< t, s >> \in StrictSubsetOrdering(S))
    BY <1>1, <1>2, WFMin
  <1>4. s # {}
    BY DEF Sums
  <1>5. PICK rest : rest = s \ {Picked(s)}
    OBVIOUS
  <1>6. rest \subseteq s /\ rest # s /\ rest \in SUBSET S
    BY <1>4, <1>5 DEF Picked
  <1>7. << rest, s >> \in StrictSubsetOrdering(S)
    BY <1>6 DEF StrictSubsetOrdering
  <1>8. g[rest] = h[rest]
    BY <1>3, <1>6, <1>7
  <1>9. /\ g[s] = used[Picked(s)].bookingCount + g[rest]
        /\ h[s] = used[Picked(s)].bookingCount + h[rest]
    BY <1>4, <1>5 DEF Sums
  <1> QED
    BY <1>8, <1>9

\* Rows counted vehicle by vehicle are all counted, once.
LEMMA CountByVehicle ==
  ASSUME NEW S, IsFiniteSet(S), NEW rows, IsFiniteSet(rows), NEW used,
         \A v \in S : used[v].bookingCount = Cardinality(TimelineRow(v, rows))
  PROVE  BookingCounts(S, used) = Cardinality({ row \in rows : row.vehicle \in S })
  <1> DEFINE with(s) == { row \in rows : row.vehicle \in s }
             h == [ s \in SUBSET S |-> Cardinality(with(s)) ]
  <1>1. ASSUME NEW s \in SUBSET S, s # {}
        PROVE  h[s] = used[Picked(s)].bookingCount + h[s \ {Picked(s)}]
    <2>1. PICK v \in s : v = Picked(s)
      BY <1>1 DEF Picked
    <2>2. PICK one, rest : one = TimelineRow(v, rows) /\ rest = with(s \ {v})
      OBVIOUS
    <2>3. IsFiniteSet(one) /\ IsFiniteSet(rest)
      BY <2>2, FS_Subset DEF TimelineRow
    <2>4. with(s) = one \cup rest /\ one \cap rest = {}
      BY <2>1, <2>2 DEF TimelineRow
    <2> HIDE DEF with
    <2>5. Cardinality(one) \in Nat /\ Cardinality(rest) \in Nat
      BY <2>3, FS_CardinalityType
    <2>6. Cardinality(with(s)) = Cardinality(one) + Cardinality(rest)
      <3>1. Cardinality(one \cup rest) = Cardinality(one) + Cardinality(rest) - Cardinality(one \cap rest)
        BY <2>3, FS_Union
      <3>2. Cardinality(one \cap rest) = 0
        BY <2>4, FS_EmptySet
      <3> QED
        BY <2>4, <2>5, <3>1, <3>2
    <2>7. h[s] = Cardinality(with(s)) /\ h[s \ {v}] = Cardinality(rest)
      BY <2>2
    <2> QED
      BY <2>1, <2>2, <2>6, <2>7
  <1>2. h[{}] = 0
    BY FS_EmptySet
  <1>3. Sums(h, used, S)
    BY <1>1, <1>2 DEF Sums
  <1>4. PICK g : Sums(g, used, S) /\ BookingCounts(S, used) = g[S]
    BY <1>3, SumUnfolds
  <1>5. g[S] = h[S]
    BY <1>3, <1>4, SumsAreOne
  <1> QED
    BY <1>4, <1>5

\* What the types of report take of the bookings of their days.
LEMMA ReportRows ==
  ASSUME TypeInv, NEW range
  PROVE  /\ BookingRows("daily-bookings", NoFilter, range, Rows)
              = First(StartingIn(range, Rows), ByStart(StartingIn(range, Rows)), Limits.reportRows)
         /\ LET cancelled == { row \in StartingIn(range, Rows) : row.status = "CANCELLED" } IN
            BookingRows("cancelled-bookings", NoFilter, range, Rows)
              = First(cancelled, ByStart(cancelled), Limits.reportRows)
         /\ LET overnight == { row \in StartingIn(range, Rows) : row.tripType = "OVERNIGHT" } IN
            BookingRows("overnight-driver-costs", NoFilter, range, Rows)
              = First(overnight, ByStart(overnight), Limits.reportRows)
  <1>1. Any \notin {"CANCELLED", "OVERNIGHT"}
    BY DeskAssumption DEF BookingStatuses, TripTypes
  <1>2. ReportFilter("daily-bookings", NoFilter) = NoFilter
    BY DEF ReportFilter, NoFilter
  <1>3. PICK filter : filter = ReportFilter("cancelled-bookings", NoFilter)
    OBVIOUS
  <1>4. DOMAIN filter = {"status", "tripType"} /\ filter.status = "CANCELLED" /\ filter.tripType = Any
    BY <1>3 DEF ReportFilter, NoFilter
  <1>5. \A rows : Matching(filter, rows) = { row \in rows : row.status = "CANCELLED" }
    BY <1>1, <1>4 DEF Matching
  <1>6. PICK nights : nights = ReportFilter("overnight-driver-costs", NoFilter)
    OBVIOUS
  <1>7. DOMAIN nights = {"status", "tripType"} /\ nights.status = Any /\ nights.tripType = "OVERNIGHT"
    BY <1>6 DEF ReportFilter, NoFilter
  <1>8. \A rows : Matching(nights, rows) = { row \in rows : row.tripType = "OVERNIGHT" }
    BY <1>1, <1>7 DEF Matching
  <1> QED
    BY <1>2, <1>3, <1>5, <1>6, <1>8, NoFilterTakesAll DEF BookingRows

\* How many rows a report takes.
LEMMA ReportTakes ==
  ASSUME TypeInv, NEW type, NEW filter, NEW range,
         NEW report \in BookingRows(type, filter, range, Rows)
  PROVE  /\ report \in SUBSET Rows /\ Cardinality(report) \in Nat
         /\ LET matching == Matching(ReportFilter(type, filter), StartingIn(range, Rows)) IN
            /\ report \subseteq matching /\ IsFiniteSet(matching) /\ Cardinality(matching) \in Nat
            /\ report = matching \/ Cardinality(report) = Limits.reportRows
            /\ Cardinality(matching) <= Limits.reportRows => report = matching
  <1> DEFINE matching == Matching(ReportFilter(type, filter), StartingIn(range, Rows))
  <1>1. matching \in SUBSET Rows
    BY DEF Matching, StartingIn
  <1>2. report \in First(matching, ByStart(matching), Limits.reportRows)
    BY DEF BookingRows
  <1>3. Limits.reportRows \in Nat
    BY LimitsAssumption
  <1> HIDE DEF matching
  <1>4. IsFiniteSet(matching) /\ Cardinality(matching) \in Nat
    BY <1>1, IdsCount
  <1>5. /\ report \subseteq matching /\ Cardinality(report) \in Nat
        /\ report = matching \/ Cardinality(report) = Limits.reportRows
        /\ Cardinality(matching) <= Limits.reportRows => report = matching
    BY <1>2, <1>3, <1>4, FirstTakes
  <1> QED
    BY <1>1, <1>4, <1>5 DEF matching

\* The daily report is of the bookings that start in its days.
LEMMA DailyTakes ==
  ASSUME TypeInv, NEW range, NEW report \in BookingRows("daily-bookings", NoFilter, range, Rows)
  PROVE  /\ report \in SUBSET StartingIn(range, Rows)
         /\ report = StartingIn(range, Rows) \/ Cardinality(report) = Limits.reportRows
  <1>1. Matching(ReportFilter("daily-bookings", NoFilter), StartingIn(range, Rows)) = StartingIn(range, Rows)
    BY NoFilterTakesAll DEF ReportFilter, NoFilter
  <1> QED
    BY <1>1, ReportTakes

LEMMA DaysReported == TypeInv => DaysAddUp
  <1> SUFFICES ASSUME TypeInv PROVE DaysAddUp
    OBVIOUS
  <1>1. Period.from \in Int /\ Period.to \in Int
    BY DeskAssumption
  <1>2. \A row \in Rows : row.startAt \in Int
    BY RowsAreBookings DEF RowRecords
  <1>3. \A day \in Int : StartingIn([ from |-> day, to |-> day + 1 ], Rows) = { row \in Rows : row.startAt = day }
    BY <1>2 DEF StartingIn
  <1>4. ASSUME NEW day \in Int, NEW one \in OfDay(day)
        PROVE  /\ \A row \in one : row.startAt = day
               /\ \A row \in Rows : row.startAt = day => row \in one \/ Cardinality(one) = Limits.reportRows
    <2>1. PICK range : range = [ from |-> day, to |-> day + 1 ]
      OBVIOUS
    <2>2. one \in BookingRows("daily-bookings", NoFilter, range, Rows)
      BY <2>1 DEF OfDay
    <2>3. one \in SUBSET StartingIn(range, Rows)
          /\ (one = StartingIn(range, Rows) \/ Cardinality(one) = Limits.reportRows)
      BY <2>2, DailyTakes
    <2> QED
      BY <1>3, <2>1, <2>3
  <1>5. Days \subseteq Int
    BY <1>1 DEF Days
  <1>6. ASSUME NEW x \in Days, NEW y \in Days, x # y, NEW one \in OfDay(x), NEW other \in OfDay(y)
        PROVE  one \cap other = {}
    BY <1>4, <1>5, <1>6
  <1>7. ASSUME NEW daily \in Reported("daily-bookings"), NEW row \in daily
        PROVE  \E day \in Days : \A one \in OfDay(day) : row \in one \/ Cardinality(one) = Limits.reportRows
    <2>1. row \in StartingIn(Period, Rows)
      BY DailyTakes DEF Reported
    <2>2. row \in Rows /\ row.startAt \in Days
      BY <2>1 DEF StartingIn, Days
    <2>3. \A one \in OfDay(row.startAt) : row \in one \/ Cardinality(one) = Limits.reportRows
      BY <1>4, <1>5, <2>2
    <2> QED
      BY <2>2, <2>3
  <1> QED
    BY <1>6, <1>7 DEF DaysAddUp

LEMMA CountsReported == TypeInv => CountsAgree
  <1> SUFFICES ASSUME TypeInv, NEW daily \in Reported("daily-bookings"), Cardinality(daily) < Limits.reportRows
               PROVE  /\ \A cancelled \in Reported("cancelled-bookings"),
                            used \in Utilization(NoFilter, Period, Rows, vehicles) :
                           Cardinality(InService(vehicles)) <= Limits.reportVehicles =>
                             SumOver(DOMAIN used, LAMBDA v : used[v].bookingCount)
                               = Cardinality({ row \in daily \ cancelled : row.vehicle \in InService(vehicles) })
                      /\ \A overnight \in Reported("overnight-driver-costs") :
                           TotalDriverCost(overnight)
                             = TotalDriverCost({ row \in daily : row.tripType = "OVERNIGHT" })
    BY DEF CountsAgree
  <1> DEFINE served == InService(vehicles)
             starting == StartingIn(Period, Rows)
  <1>1. /\ daily \in SUBSET starting
        /\ daily = starting \/ Cardinality(daily) = Limits.reportRows
    BY DailyTakes DEF Reported
  <1>2. starting \in SUBSET Rows
    BY DEF StartingIn
  <1>3. Limits.reportRows \in Nat /\ Limits.reportVehicles \in Nat
    BY LimitsAssumption
  <1> HIDE DEF starting
  <1>4. IsFiniteSet(daily) /\ Cardinality(daily) \in Nat
    BY <1>1, <1>2, IdsCount
  <1>5. daily = starting /\ Cardinality(daily) <= Limits.reportRows
    BY <1>1, <1>3, <1>4
  \* A part of the bookings is taken whole.
  <1>6. ASSUME NEW part \in SUBSET daily, NEW rank, NEW taken \in First(part, rank, Limits.reportRows)
        PROVE  taken = part
    BY <1>3, <1>4, <1>5, PartTaken
  <1>7. ASSUME NEW cancelled \in Reported("cancelled-bookings"),
               NEW used \in Utilization(NoFilter, Period, Rows, vehicles),
               Cardinality(served) <= Limits.reportVehicles
        PROVE  SumOver(DOMAIN used, LAMBDA v : used[v].bookingCount)
                 = Cardinality({ row \in daily \ cancelled : row.vehicle \in served })
    <2>1. cancelled = { row \in daily : row.status = "CANCELLED" }
      <3>1. PICK part : part = { row \in daily : row.status = "CANCELLED" }
        OBVIOUS
      <3>2. cancelled \in First(part, ByStart(part), Limits.reportRows)
        BY <1>5, <3>1, ReportRows DEF Reported, starting
      <3> QED
        BY <1>6, <3>1, <3>2
    <2>2. IsFiniteSet(served)
      BY RowsRead, FleetCount
    <2>3. used \in Utilizations(Active(starting), vehicles)
      <3>1. [ NoFilter EXCEPT !.status = Any ] = NoFilter
        BY DEF NoFilter
      <3> QED
        BY <3>1, NoFilterTakesAll DEF Utilization, starting
    <2>0. PICK listed \in First(served, Unordered(served), Limits.reportVehicles) :
            \E counted \in First(Active(starting), Unordered(Active(starting)), Limits.reportRows) :
              used = UtilizationRows(listed, counted)
      BY <2>3 DEF Utilizations
    <2>4. PICK counted \in First(Active(starting), Unordered(Active(starting)), Limits.reportRows) :
            used = UtilizationRows(listed, counted)
      BY <2>0
    <2> HIDE DEF served
    <2>5. listed = served
      BY <1>3, <1>7, <2>2, <2>4, FirstTakes
    <2>6. counted = daily \ cancelled
      <3>1. PICK part : part = Active(starting)
        OBVIOUS
      <3>2. part \in SUBSET daily /\ part = daily \ cancelled
        BY <1>5, <2>1, <3>1 DEF Active
      <3> QED
        BY <1>6, <2>4, <3>1, <3>2
    <2>7. DOMAIN used = served /\ \A v \in served : used[v].bookingCount = Cardinality(TimelineRow(v, counted))
      BY <2>4, <2>5 DEF UtilizationRows
    <2>8. IsFiniteSet(counted)
      BY <1>4, <2>6, FS_Subset
    <2>9. BookingCounts(served, used) = Cardinality({ row \in counted : row.vehicle \in served })
      BY <2>2, <2>7, <2>8, CountByVehicle
    <2>10. BookingCounts(DOMAIN used, used) = Cardinality({ row \in daily \ cancelled : row.vehicle \in served })
      BY <2>6, <2>7, <2>9
    <2> QED
      BY <2>10 DEF BookingCounts
  <1>8. ASSUME NEW overnight \in Reported("overnight-driver-costs")
        PROVE  TotalDriverCost(overnight) = TotalDriverCost({ row \in daily : row.tripType = "OVERNIGHT" })
    <2>1. PICK part : part = { row \in daily : row.tripType = "OVERNIGHT" }
      OBVIOUS
    <2>2. overnight \in First(part, ByStart(part), Limits.reportRows)
      BY <1>5, <2>1, ReportRows DEF Reported, starting
    <2>3. overnight = part
      BY <1>6, <2>1, <2>2
    <2> QED
      BY <2>1, <2>3
  <1> QED
    BY <1>7, <1>8

LEMMA BarsReported == TypeInv => ReportedHaveBars
  <1> SUFFICES ASSUME TypeInv, NEW daily \in Reported("daily-bookings"), NEW bars \in Bars(NoFilter, Period, Rows)
               PROVE  daily \subseteq bars \/ Cardinality(bars) = Limits.bars
    BY DEF ReportedHaveBars
  <1> DEFINE meeting == OverlapsWindow(Period, Rows)
  <1>1. Period.from \in Int /\ Period.to \in Int
    BY DeskAssumption
  <1>2. \A row \in Rows : /\ row.startAt \in Int /\ row.endAt \in Int /\ row.from \in Int /\ row.to \in Int
                          /\ Covers(row)
    BY RowsAreBookings DEF RowRecords
  <1>3. daily \subseteq StartingIn(Period, Rows)
    BY DailyTakes DEF Reported
  <1>4. \A row \in StartingIn(Period, Rows) : row \in Rows /\ row.from < Period.to /\ row.to > Period.from
    BY <1>1, <1>2 DEF StartingIn, Covers
  <1>5. daily \subseteq meeting /\ meeting \in SUBSET Rows
    BY <1>3, <1>4 DEF OverlapsWindow
  <1>6. bars \in First(meeting, Unordered(meeting), Limits.bars)
    BY NoFilterTakesAll DEF Bars
  <1> HIDE DEF meeting
  <1>7. IsFiniteSet(meeting) /\ Limits.bars \in Nat
    BY <1>5, IdsCount, LimitsAssumption
  <1>8. bars = meeting \/ Cardinality(bars) = Limits.bars
    BY <1>6, <1>7, FirstTakes
  <1> QED
    BY <1>5, <1>8

\* The reports agree with one another and with the timeline, for every calendar
\* and every fleet, as far as the limits of their statements let them.
THEOREM ReportsAlwaysAgree == Spec => []ReportsAgree
  <1>1. TypeInv => ReportsAgree
    BY DaysReported, CountsReported, BarsReported DEF ReportsAgree
  <1> QED
    BY <1>1, TypeCorrect, PTL
-----------------------------------------------------------------------------
(***************************************************************************)
(* The bookings keep to the calendar                                       *)
(***************************************************************************)
Hold(row) == [ vehicle |-> row.vehicle, driver |-> row.driver, from |-> row.from, to |-> row.to ]

LEMMA WriteKeepsCalendar ==
  ASSUME TypeInv, NEW b \in BookingIds, NEW row \in RowRecords, row.id = b, Covers(row), Free(row),
         bookings' = [ bookings EXCEPT ![b] = row ]
  PROVE  Calendar!Next
  <1>1. row # None /\ bookings \in [ BookingIds -> RowRecords \cup {None} ]
    BY DeskAssumption DEF TypeInv, TablesOK, Booked
  <1>2. \A c \in BookingIds : Held[c] = IF bookings[c] = None \/ ~ Blocking(bookings[c]) THEN None
                                        ELSE Hold(bookings[c])
    BY DEF Held, Hold
  <1>3. Held' = [ Held EXCEPT ![b] = IF Blocking(row) THEN Hold(row) ELSE None ]
    BY <1>1 DEF Held, Hold
  <1>4. CASE ~ Blocking(row)
    <2>1. Calendar!GiveBack(b)
      BY <1>3, <1>4 DEF Calendar!GiveBack
    <2> QED
      BY <2>1 DEF Calendar!Next
  <1>5. CASE Blocking(row)
    <2>1. Held' = [ Held EXCEPT ![b] = Hold(row) ] /\ DOMAIN Held = BookingIds
      BY <1>3, <1>5 DEF Held
    <2>2. Held'[b] = Hold(row)
      BY <2>1
    <2>3. ASSUME NEW c \in BookingIds \ {b}, Held[c] # None
          PROVE  ~ Calendar!Clash(Hold(row), Held[c])
      <3>1. bookings[c] # None /\ Blocking(bookings[c]) /\ Held[c] = Hold(bookings[c])
        BY <1>2, <2>3
      <3>2. bookings[c] \in RowsBut(b) /\ bookings[c] \in RowRecords
        BY <1>1, <2>3, <3>1 DEF RowsBut, Rows, TypeInv, TablesOK, Booked
      <3>3. Conflicts(row.vehicle, row.driver, row, RowsBut(b)) = {}
        BY <1>5 DEF Free
      <3>4. ~ (/\ HasHalfOpenOverlap(row.from, row.to, bookings[c].from, bookings[c].to)
               /\ bookings[c].vehicle = row.vehicle \/ bookings[c].driver = row.driver)
        BY <3>1, <3>2, <3>3 DEF Conflicts, OverlappingRows
      <3> QED
        BY <3>1, <3>2, <3>4 DEF Calendar!Clash, Hold, HasHalfOpenOverlap, RowRecords
    <2>4. Calendar!Place(b, Held'[b])
      BY <2>1, <2>2, <2>3 DEF Calendar!Place
    <2>5. Held'[b] \in Calendar!Holds
      BY <2>2 DEF Hold, Calendar!Holds, RowRecords
    <2>6. Held'[b].from < Held'[b].to
      <3>1. /\ row.from \in Int /\ row.to \in Int /\ row.startAt \in Int /\ row.endAt \in Int
            /\ row.from <= row.startAt /\ row.startAt < row.endAt /\ row.endAt <= row.to
        BY DEF RowRecords, Covers
      <3>2. row.from < row.to
        BY <3>1
      <3> QED
        BY <2>2, <3>2 DEF Hold
    <2> QED
      BY <2>4, <2>5, <2>6 DEF Calendar!Next
  <1> QED
    BY <1>4, <1>5

\* A change of status to one under which the booking is free.
LEMMA RestateKeepsCalendar ==
  ASSUME TypeInv, NEW b, Exists(b), NEW to \in BookingStatuses,
         Free([ bookings[b] EXCEPT !.status = to ]),
         bookings' = [ bookings EXCEPT ![b].status = to ]
  PROVE  Calendar!Next
  <1>1. PICK row : row = [ bookings[b] EXCEPT !.status = to ]
    OBVIOUS
  <1>2. bookings[b] \in RowRecords /\ bookings[b].id = b /\ Covers(bookings[b]) /\ b \in BookingIds
    BY DEF TypeInv, TablesOK, Booked, Exists
  <1>3. row \in RowRecords /\ row.id = b /\ Covers(row)
    BY <1>1, <1>2 DEF RowRecords, Covers
  <1>4. bookings' = [ bookings EXCEPT ![b] = row ] /\ Free(row)
    BY <1>1
  <1> QED
    BY <1>2, <1>3, <1>4, WriteKeepsCalendar

\* What the check of a save finds free is free.
LEMMA CheckedIsFree ==
  ASSUME TypeInv, screen = "form", saving.stage = "sent",
         NEW b \in IF saving.about.editing = None THEN { x \in BookingIds : bookings[x] = None }
                   ELSE {saving.about.editing},
         ConflictKinds(saving.about, Settings, Rows) = {}
  PROVE  Free(FormRow(b, saving.about))
  <1> DEFINE c == saving.about
             row == FormRow(b, c)
             window == ResolveWindow(c.tripType, c.startAt, c.endAt, Settings)
  <1>1. c \in FormRecords
    BY FormsAreRecords, SettingsAreNotNone DEF TypeInv, SavingOK, SavingsOn
  <1>2. /\ row.vehicle = c.vehicle /\ row.driver = c.driver /\ row.id = b
        /\ row.from = window.from /\ row.to = window.to
    BY DEF FormRow
  <1>3. \A other \in RowsBut(b) : other \in Rows /\ other.id # c.editing
    BY RowsAreBookings, DeskAssumption DEF RowsBut
  <1> HIDE DEF row, window
  <1>4. \A other \in InTheWay(c, Settings, Rows) : other.vehicle # c.vehicle /\ other.driver # c.driver
    BY <1>1, KindsOfConflict
  <1>5. OverlappingRows(row, RowsBut(b)) \subseteq InTheWay(c, Settings, Rows)
    BY <1>2, <1>3 DEF OverlappingRows, InTheWay, window
  <1>6. Conflicts(row.vehicle, row.driver, row, RowsBut(row.id)) = {}
    BY <1>2, <1>4, <1>5 DEF Conflicts
  <1> QED
    BY <1>6 DEF Free, row

LEMMA StepKeepsCalendar == TypeInv /\ [Next]_vars => [bookings' # bookings => Calendar!Next]_vars
  <1> SUFFICES ASSUME TypeInv, Next, bookings' # bookings PROVE Calendar!Next
    OBVIOUS
  <1>1. CASE BookElsewhere
    <2>1. PICK b \in BookingIds, new \in NewRows :
            /\ Free([ new EXCEPT !.id = b ])
            /\ bookings' = [ bookings EXCEPT ![b] = [ new EXCEPT !.id = b ] ]
      BY <1>1 DEF BookElsewhere, Commit
    <2>2. PICK row : row = [ new EXCEPT !.id = b ]
      OBVIOUS
    <2>3. row \in RowRecords /\ row.id = b /\ Covers(row)
      BY <2>2, DeskAssumption DEF RowRecords, Covers
    <2>4. Free(row) /\ bookings' = [ bookings EXCEPT ![b] = row ]
      BY <2>1, <2>2
    <2> QED
      BY <2>3, <2>4, WriteKeepsCalendar
  <1>2. CASE ChangeElsewhere
    <2>1. PICK row \in Rows, to \in {"CONFIRMED", "CANCELLED"} :
            /\ Free([ row EXCEPT !.status = to ])
            /\ bookings' = [ bookings EXCEPT ![row.id].status = to ]
      BY <1>2 DEF ChangeElsewhere, Commit
    <2>2. Exists(row.id) /\ row = bookings[row.id] /\ to \in BookingStatuses
      BY RowsAreBookings DEF Exists, Rows, BookingStatuses
    <2>3. Free([ bookings[row.id] EXCEPT !.status = to ])
      BY <2>1, <2>2
    <2> QED
      BY <2>1, <2>2, <2>3, RestateKeepsCalendar
  <1>3. CASE ServeSubmit
    <2>1. PICK b \in IF saving.about.editing = None THEN { x \in BookingIds : bookings[x] = None }
                     ELSE {saving.about.editing} :
            /\ ConflictKinds(saving.about, Settings, Rows) = {}
            /\ bookings' = [ bookings EXCEPT ![b] = FormRow(b, saving.about) ]
      BY <1>3 DEF ServeSubmit, Commit, tables
    <2>2. screen = "form" /\ saving.stage = "sent"
      BY <1>3 DEF ServeSubmit
    <2>3. PICK row \in RowRecords : /\ row = FormRow(b, saving.about) /\ row.id = b /\ Covers(row)
                                    /\ b \in BookingIds
      BY <2>2, FormRowIsOne
    <2>4. Free(row) /\ bookings' = [ bookings EXCEPT ![b] = row ]
      BY <2>1, <2>2, <2>3, CheckedIsFree
    <2> QED
      BY <2>3, <2>4, WriteKeepsCalendar
  <1>4. CASE ServeStatus
    <2> DEFINE b == saving.target.id
    <2>1. Exists(b) /\ bookings[b].id = b
      BY <1>4 DEF ServeStatus, TypeInv, SavingNamed, TablesOK, Booked, Exists
    <2>2. PICK to \in BookingStatuses :
            /\ Free([ bookings[b] EXCEPT !.status = to ])
            /\ bookings' = [ bookings EXCEPT ![b].status = to ]
      BY <1>4, <2>1 DEF ServeStatus, Commit, tables, BookingStatuses
    <2> QED
      BY <2>1, <2>2, RestateKeepsCalendar
  <1>5. CASE VehicleElsewhere
    BY <1>5 DEF VehicleElsewhere, Commit
  <1>6. CASE ServeVehicle
    BY <1>6 DEF ServeVehicle, Commit, tables
  <1>7. CASE User
    BY <1>7, UserIsQuiet DEF Quiet
  <1>8. CASE DeliverBooked \/ DeliverSaved \/ DeliverConflict \/ DeliverRefused \/ GenerateExport
             \/ RefuseExport \/ FailExport
    BY <1>8 DEF DeliverBooked, DeliverSaved, DeliverConflict, DeliverRefused, GenerateExport,
                RefuseExport, FailExport, tables
  <1>9. CASE \E r \in Slots : Serve(r) \/ Deliver(r) \/ Fail(r)
    BY <1>9 DEF Serve, Deliver, Fail, tables
  <1> QED
    BY <1>1, <1>2, <1>3, <1>4, <1>5, <1>6, <1>7, <1>8, <1>9 DEF Next, Elsewhere, Saves

\* The bookings under a screen change only as the calendar allows: what the
\* screen assumes of the others' commits, and what its own saves add to them.
THEOREM ScreenKeepsToCalendar == Spec => KeepsToCalendar
  BY TypeCorrect, StepKeepsCalendar, PTL DEF Spec, KeepsToCalendar

=============================================================================
