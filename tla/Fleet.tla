------------------------------- MODULE Fleet -------------------------------
(***************************************************************************)
(* The vehicle, driver, customer and settings services.  None of the first *)
(* three uses a transaction: each await below is a statement of its own,   *)
(* and requests run at once.                                               *)
(*                                                                         *)
(*   create           idle -> (matched ->) auditing -> idle                *)
(*   update           idle -> loaded -> (matched ->) auditing -> idle      *)
(*   status, delete   idle -> loaded -> auditing -> idle                   *)
(*   settings         idle -> reading -> settling -> idle                  *)
(*                                                                         *)
(* ("matched" follows the search for customers with the same phone, whose  *)
(* result only goes into the answer.)  The three tables are one function   *)
(* on ids.  A row has the field that its service compares or passes on     *)
(* (plate number, overnight rate, phone), the status and whether deletedAt *)
(* is set; customers have no status.  The statements of                    *)
(* updateOvernightSettings see what others committed before them (READ     *)
(* COMMITTED), and the first upsert's row lock makes its writes and commit *)
(* one step.                                                               *)
(***************************************************************************)
EXTENDS Integers, FiniteSets

CONSTANTS
  Vehicles, Drivers, Customers,   \* ids, in use or not
  Plates, Rates, Phones,
  Zones,                          \* currency and timezone, together
  VehicleStatusInputs, DriverStatusInputs,
  SettingsInputs,                 \* bodies of PATCH /settings/overnight
  SeededSettings,                 \* the SystemSetting rows at the start
  Handlers,
  None,
  Failures,                       \* whether a statement may fail
  MaxRequests                     \* bound: requests that change something

VARIABLES
  rows,                           \* Vehicle, Driver and Customer tables
  systemSettings,                 \* SystemSetting table
  told,                           \* the audit log's last word on each id
  toldSettings,                   \* newValues of its last settings entry
  handlers,
  outrun,                         \* history: ids deleted before a status change
                                  \* that had found them undeleted
  misreported,                    \* history: ids whose entries crossed or were lost
  requests                        \* how many have been received

vars == << rows, systemSettings, told, toldSettings, handlers, outrun, misreported, requests >>

-----------------------------------------------------------------------------

VehicleStatuses ==
  {"AVAILABLE", "BOOKED", "MAINTENANCE", "OUT_OF_SERVICE", "INACTIVE"}
DriverStatuses == {"AVAILABLE", "ASSIGNED", "ON_LEAVE", "INACTIVE"}

Ids == Vehicles \cup Drivers \cup Customers
Keys == Plates \cup Rates \cup Phones
Statuses == VehicleStatuses \cup DriverStatuses \cup {None}
Rows == [ key : Keys, status : Statuses, deleted : BOOLEAN ]

(***************************************************************************)
(* SystemSetting.value of the key overnightDefaults.  A rate may also be   *)
(* stored under the older name driverDailyRate, which the seed writes next *)
(* to the newer one.  zone stands for the keys currency and timezone.      *)
(***************************************************************************)
OvernightSettings == [ rate : Rates, pre : Nat, post : Nat, zone : Zones ]
SettingRows ==
  [ rate : Rates \cup {None}, legacyRate : Rates \cup {None},
    pre : Nat \cup {None}, post : Nat \cup {None}, zone : Zones \cup {None} ]

defaultOvernightSettings == [ rate |-> 250, pre |-> 12, post |-> 12, zone |-> "SAR, Asia/Riyadh" ]

Operations == {"create", "update", "status", "delete", "settings"}

\* key: what the body gives, None when it leaves the field out; existing: what
\* the first read returned; row: what the write returned.
HandlerStates ==
  [ stage : {"idle", "loaded", "matched", "auditing", "reading", "settling"},
    op : Operations \cup {None}, id : Ids \cup {None},
    key : Keys \cup {None},
    existing : Rows \cup OvernightSettings \cup {None}, row : Rows \cup {None} ]

ASSUME FleetAssumption ==
  /\ None \notin Rows \cup OvernightSettings \cup Ids \cup Keys
  /\ None \notin Operations \cup Nat \cup Zones
  /\ Vehicles \cap Drivers = {} /\ Vehicles \cap Customers = {} /\ Drivers \cap Customers = {}
  /\ VehicleStatusInputs \subseteq VehicleStatuses
  /\ DriverStatusInputs \subseteq DriverStatuses
  /\ 250 \in Rates /\ "SAR, Asia/Riyadh" \in Zones
  /\ SettingsInputs \subseteq OvernightSettings
  /\ SeededSettings \in SettingRows
  /\ Failures \in BOOLEAN
  /\ MaxRequests \in Nat

-----------------------------------------------------------------------------

InUse == { id \in Ids : rows[id] # None }
\* What the reads with deletedAt: null find.
Listed == { id \in InUse : ~ rows[id].deleted }
Existing(ids) == ids \cap Listed
Unused(ids) ==
  { id \in ids \ InUse : \A h \in Handlers : handlers[h].id # id }

Idle == [ stage |-> "idle", op |-> None, id |-> None, key |-> None, existing |-> None,
          row |-> None ]
At(h, stage, op) == handlers[h].stage = stage /\ handlers[h].op = op

\* Its write is made and its audit entry is not.
About(h, id) == handlers[h].stage = "auditing" /\ handlers[h].id = id

Receive(h, state) ==
  /\ handlers[h] = Idle
  /\ requests < MaxRequests
  /\ requests' = requests + 1
  /\ handlers' = [ handlers EXCEPT ![h] = state ]

(***************************************************************************)
(* The row as the write leaves it, for the audit entry that comes next.    *)
(* History: a deletion outruns the status changes of the row that have     *)
(* found it; entries cross when two writes of the row are made before      *)
(* either entry; and the entry of a later create or update, which tells    *)
(* the whole row, makes up for what crossed or was lost before.            *)
(***************************************************************************)
Written(h, id, row) ==
  /\ rows' = [ rows EXCEPT ![id] = row ]
  /\ outrun' =
       IF /\ handlers'[h].op = "delete"
          /\ \E g \in Handlers : At(g, "loaded", "status") /\ handlers[g].id = id
         THEN outrun \cup {id} ELSE outrun
  /\ misreported' =
       IF \E g \in Handlers : About(g, id) THEN misreported \cup {id}
       ELSE IF handlers'[h].op \in {"create", "update"} THEN misreported \ {id}
       ELSE misreported
  /\ UNCHANGED << systemSettings, told, toldSettings >>

Write(h, row) ==
  /\ handlers' = [ handlers EXCEPT ![h].stage = "auditing", ![h].row = row ]
  /\ Written(h, handlers[h].id, row)
  /\ UNCHANGED requests

Insert(h, id, row) ==
  /\ Receive(h, [ Idle EXCEPT !.stage = "auditing", !.op = "create", !.id = id, !.row = row ])
  /\ Written(h, id, row)

Given(value, present) == IF value = None THEN present ELSE value

\* Mutant: the read finds deleted rows too.
LoadDeleted(h, op, id, key) ==
  /\ id \in InUse
  /\ Receive(h, [ Idle EXCEPT !.stage = "loaded", !.op = op, !.id = id, !.key = key,
                              !.existing = rows[id] ])
  /\ UNCHANGED << rows, systemSettings, told, toldSettings, outrun, misreported >>

(***************************************************************************)
(* getVehicle, getDriver or getCustomer as the first step of a request     *)
(* that changes the row; an id that is not found is answered with 404.     *)
(***************************************************************************)
Load(h, op, id, key) ==
  /\ id \in Listed
  /\ Receive(h, [ Idle EXCEPT !.stage = "loaded", !.op = op, !.id = id, !.key = key,
                              !.existing = rows[id] ])
  /\ UNCHANGED << rows, systemSettings, told, toldSettings, outrun, misreported >>

-----------------------------------------------------------------------------
(***************************************************************************)
(* vehicle.service.ts.  The unique plate number counts deleted vehicles.   *)
(***************************************************************************)
PlateFree(v, plate) == \A w \in (Vehicles \cap InUse) \ {v} : rows[w].key # plate

CreateVehicle(h) ==
  \E v \in Unused(Vehicles), plate \in Plates, status \in VehicleStatusInputs :
    /\ PlateFree(v, plate)
    /\ Insert(h, v, [ key |-> plate, status |-> status, deleted |-> FALSE ])

LoadVehicle(h) ==
  \E v \in Vehicles :
    \/ \E plate \in Plates \cup {None} : Load(h, "update", v, plate)
    \/ \E op \in {"status", "delete"} : Load(h, op, v, None)

\* Mutant: the whole row that was read is written back.
UpdateWholeVehicle(h) ==
  /\ At(h, "loaded", "update") /\ handlers[h].id \in Vehicles
  /\ LET plate == Given(handlers[h].key, handlers[h].existing.key) IN
       /\ PlateFree(handlers[h].id, plate)
       /\ Write(h, [ handlers[h].existing EXCEPT !.key = plate ])

UpdateVehicle(h) ==
  /\ At(h, "loaded", "update") /\ handlers[h].id \in Vehicles
  /\ LET row == rows[handlers[h].id]
         plate == Given(handlers[h].key, row.key)
     IN  /\ PlateFree(handlers[h].id, plate)
         /\ Write(h, [ row EXCEPT !.key = plate ])

UpdateVehicleStatus(h) ==
  /\ At(h, "loaded", "status") /\ handlers[h].id \in Vehicles
  /\ \E status \in VehicleStatusInputs :
       Write(h, [ rows[handlers[h].id] EXCEPT !.status = status ])

SoftDeleteVehicle(h) ==
  /\ At(h, "loaded", "delete") /\ handlers[h].id \in Vehicles
  /\ Write(h, [ rows[handlers[h].id] EXCEPT !.status = "INACTIVE", !.deleted = TRUE ])

-----------------------------------------------------------------------------
(***************************************************************************)
(* driver.service.ts                                                       *)
(***************************************************************************)
CreateDriver(h) ==
  \E d \in Unused(Drivers), rate \in Rates, status \in DriverStatusInputs :
    Insert(h, d, [ key |-> rate, status |-> status, deleted |-> FALSE ])

LoadDriver(h) ==
  \E d \in Drivers :
    \/ \E rate \in Rates \cup {None} : Load(h, "update", d, rate)
    \/ \E op \in {"status", "delete"} : Load(h, op, d, None)

\* Mutant: a rate the body leaves out is written as null.
UpdateDriverNulls(h) ==
  /\ At(h, "loaded", "update") /\ handlers[h].id \in Drivers
  /\ Write(h, [ rows[handlers[h].id] EXCEPT !.key = handlers[h].key ])

UpdateDriver(h) ==
  /\ At(h, "loaded", "update") /\ handlers[h].id \in Drivers
  /\ Write(h, [ rows[handlers[h].id] EXCEPT !.key = Given(handlers[h].key, @) ])

UpdateDriverStatus(h) ==
  /\ At(h, "loaded", "status") /\ handlers[h].id \in Drivers
  /\ \E status \in DriverStatusInputs :
       Write(h, [ rows[handlers[h].id] EXCEPT !.status = status ])

SoftDeleteDriver(h) ==
  /\ At(h, "loaded", "delete") /\ handlers[h].id \in Drivers
  /\ Write(h, [ rows[handlers[h].id] EXCEPT !.status = "INACTIVE", !.deleted = TRUE ])

-----------------------------------------------------------------------------
(***************************************************************************)
(* customer.service.ts                                                     *)
(***************************************************************************)
\* createCustomer looks for the same phone first, then inserts.
MatchNewCustomer(h) ==
  \E c \in Unused(Customers), phone \in Phones :
    /\ Receive(h, [ Idle EXCEPT !.stage = "matched", !.op = "create", !.id = c, !.key = phone ])
    /\ UNCHANGED << rows, systemSettings, told, toldSettings, outrun, misreported >>

CreateCustomer(h) ==
  /\ At(h, "matched", "create")
  /\ Write(h, [ key |-> handlers[h].key, status |-> None, deleted |-> FALSE ])

LoadCustomer(h) ==
  \E c \in Customers :
    \/ \E phone \in Phones \cup {None} : Load(h, "update", c, phone)
    \/ Load(h, "delete", c, None)

\* updateCustomer looks for others with the phone, if the body gives one.
MatchCustomer(h) ==
  /\ At(h, "loaded", "update") /\ handlers[h].id \in Customers
  /\ handlers' = [ handlers EXCEPT ![h].stage = "matched" ]
  /\ UNCHANGED << rows, systemSettings, told, toldSettings, outrun, misreported, requests >>

UpdateCustomer(h) ==
  /\ At(h, "matched", "update")
  /\ Write(h, [ rows[handlers[h].id] EXCEPT !.key = Given(handlers[h].key, @) ])

DeleteCustomer(h) ==
  /\ At(h, "loaded", "delete") /\ handlers[h].id \in Customers
  /\ Write(h, [ rows[handlers[h].id] EXCEPT !.deleted = TRUE ])

-----------------------------------------------------------------------------
(***************************************************************************)
(* The audit entry, in a statement of its own after the write.             *)
(***************************************************************************)
\* Mutant: the entry of a deletion has the old status.
ToldOldStatus(h, before) ==
  LET p == handlers[h] IN
  IF p.op = "status" THEN [ before EXCEPT !.status = p.row.status ]
  ELSE IF p.op = "delete" THEN [ before EXCEPT !.deleted = p.row.deleted ]
  ELSE p.row

\* newValues: the row for _CREATED and _UPDATED, the status for
\* _STATUS_CHANGED, status and deletedAt for _SOFT_DELETED.
Told(h, before) ==
  LET p == handlers[h] IN
  IF p.op = "status" THEN [ before EXCEPT !.status = p.row.status ]
  ELSE IF p.op = "delete"
    THEN [ before EXCEPT !.status = p.row.status, !.deleted = p.row.deleted ]
  ELSE p.row

Audit(h) ==
  /\ handlers[h].stage = "auditing"
  /\ LET id == handlers[h].id
         before == IF told[id] = None THEN handlers[h].row ELSE told[id]
     IN  told' = [ told EXCEPT ![id] = Told(h, before) ]
  /\ handlers' = [ handlers EXCEPT ![h] = Idle ]
  /\ UNCHANGED << rows, systemSettings, toldSettings, outrun, misreported, requests >>

-----------------------------------------------------------------------------
(***************************************************************************)
(* settings.service.ts                                                     *)
(***************************************************************************)
\* getOvernightSettings
Effective(s) ==
  [ rate |-> Given(s.rate, Given(s.legacyRate, defaultOvernightSettings.rate)),
    pre |-> Given(s.pre, defaultOvernightSettings.pre),
    post |-> Given(s.post, defaultOvernightSettings.post),
    zone |-> Given(s.zone, defaultOvernightSettings.zone) ]

BeginSettings(h) ==
  /\ Receive(h, [ Idle EXCEPT !.stage = "reading", !.op = "settings",
                              !.existing = Effective(systemSettings) ])
  /\ UNCHANGED << rows, systemSettings, told, toldSettings, outrun, misreported >>

\* The read of currency and timezone, which may see a later commit than the
\* read of overnightDefaults did.
ReadZone(h) ==
  /\ handlers[h].stage = "reading"
  /\ handlers' = [ handlers EXCEPT ![h].stage = "settling",
                                   ![h].existing.zone = Effective(systemSettings).zone ]
  /\ UNCHANGED << rows, systemSettings, told, toldSettings, outrun, misreported, requests >>

\* Mutant: the upsert merges with the value that is there.
StoredOver(input) ==
  [ systemSettings EXCEPT !.rate = IF systemSettings.legacyRate = None THEN input.rate ELSE @,
                          !.pre = input.pre, !.post = input.post, !.zone = input.zone ]

Stored(input) ==
  [ rate |-> input.rate, legacyRate |-> None, pre |-> input.pre, post |-> input.post,
    zone |-> input.zone ]

\* updateOvernightSettings, its upserts and audit entry committed together.
UpdateSettings(h) ==
  /\ handlers[h].stage = "settling"
  /\ \E input \in SettingsInputs :
       systemSettings' = Stored(input) /\ toldSettings' = input
  /\ handlers' = [ handlers EXCEPT ![h] = Idle ]
  /\ UNCHANGED << rows, told, outrun, misreported, requests >>

-----------------------------------------------------------------------------

\* Requests that change nothing: the reads, an id that is not listed (404) and a
\* new vehicle whose plate number is in use (P2002, 409).
Read(h) == handlers[h] = Idle /\ UNCHANGED vars

\* The update of a vehicle to a plate number in use: P2002, 409.
RefusePlate(h) ==
  /\ At(h, "loaded", "update") /\ handlers[h].id \in Vehicles
  /\ ~ PlateFree(handlers[h].id, Given(handlers[h].key, rows[handlers[h].id].key))
  /\ handlers' = [ handlers EXCEPT ![h] = Idle ]
  /\ UNCHANGED << rows, systemSettings, told, toldSettings, outrun, misreported, requests >>

\* A statement fails or the process stops.  What was written stays, without an
\* entry; the settings transaction leaves nothing.
Abort(h) ==
  /\ Failures
  /\ handlers[h] # Idle
  /\ misreported' = misreported \cup { id \in Ids : About(h, id) }
  /\ handlers' = [ handlers EXCEPT ![h] = Idle ]
  /\ UNCHANGED << rows, systemSettings, told, toldSettings, outrun, requests >>

Init ==
  /\ rows = [ id \in Ids |-> None ]
  /\ systemSettings = SeededSettings
  /\ told = [ id \in Ids |-> None ]
  /\ toldSettings = Effective(systemSettings)
  /\ handlers = [ h \in Handlers |-> Idle ]
  /\ outrun = {} /\ misreported = {}
  /\ requests = 0

HandlerStep(h) ==
  \/ CreateVehicle(h) \/ LoadVehicle(h) \/ UpdateVehicle(h) \/ RefusePlate(h)
  \/ UpdateVehicleStatus(h) \/ SoftDeleteVehicle(h)
  \/ CreateDriver(h) \/ LoadDriver(h) \/ UpdateDriver(h)
  \/ UpdateDriverStatus(h) \/ SoftDeleteDriver(h)
  \/ MatchNewCustomer(h) \/ CreateCustomer(h) \/ LoadCustomer(h) \/ MatchCustomer(h)
  \/ UpdateCustomer(h) \/ DeleteCustomer(h)
  \/ BeginSettings(h) \/ ReadZone(h) \/ UpdateSettings(h)
  \/ Audit(h) \/ Abort(h) \/ Read(h)

Next == \E h \in Handlers : HandlerStep(h)

Spec == Init /\ [][Next]_vars

-----------------------------------------------------------------------------
(***************************************************************************)
(* Properties                                                              *)
(***************************************************************************)

\* Rows, settings and requests have the fields the schema and the services give
\* them; plate, rate and phone stay in their own tables.
TypeOK ==
  /\ rows \in [ Ids -> Rows \cup {None} ]
  /\ systemSettings \in SettingRows
  /\ told \in [ Ids -> Rows \cup {None} ]
  /\ toldSettings \in OvernightSettings
  /\ handlers \in [ Handlers -> HandlerStates ]
  /\ outrun \in SUBSET Ids /\ misreported \in SUBSET Ids
  /\ requests \in Nat

\* Deleted vehicles and drivers are inactive (docs/business-rules.md:98), whatever
\* requests run beside the deletion.  The one exception: a status change that had
\* found the row before it was deleted, and writes by id afterwards.
DeletedStaysInactive ==
  \A id \in (Vehicles \cup Drivers) \cap InUse :
    rows[id].deleted /\ id \notin outrun => rows[id].status = "INACTIVE"

\* The audit log tells the fields of a row (docs/requirements.md:99) as soon as
\* no request is between its write and its entry.  The exceptions: a request that
\* ended there, and two that were there at once, until a later update of the row.
AuditTellsRows ==
  \A id \in InUse \ misreported :
    (\A h \in Handlers : ~ About(h, id)) => told[id] = rows[id]

\* The settings a booking reads are those the last settings entry of the audit
\* log gives, or the seeded ones before the first: whatever was stored under
\* the older name, fails or runs at once (updateOvernightSettings).
AuditTellsSettings == toldSettings = Effective(systemSettings)

(***************************************************************************)
(* What the booking service takes for granted about its fleet: Bookings    *)
(* lets vehicles, drivers, customers and settings change by the steps of   *)
(* its WriteVehicle, WriteDriver, DeleteCustomer and UpdateSettings.  An   *)
(* id that is not in use yet looks like the rows Bookings starts with: no  *)
(* booking can name it.                                                    *)
(***************************************************************************)
Seen(id) ==
  IF id \in InUse THEN rows[id]
  ELSE [ key |-> 0, status |-> "AVAILABLE", deleted |-> FALSE ]

BookingSettings(s) == [ pre |-> s.pre, post |-> s.post, rate |-> s.rate ]

VehiclesSeen ==
  [ v \in Vehicles |-> [ status |-> Seen(v).status, deleted |-> Seen(v).deleted ] ]
DriversSeen ==
  [ d \in Drivers |-> [ status |-> Seen(d).status, deleted |-> Seen(d).deleted,
                        rate |-> Seen(d).key ] ]
CustomersSeen == { c \in Customers : ~ Seen(c).deleted }
SettingsSeen == BookingSettings(Effective(systemSettings))

Environment ==
  INSTANCE Bookings WITH
    BookingIds <- {}, Vouchers <- {}, Remarks <- {}, Handlers <- {}, NoBooking <- None,
    Absent <- None, Actors <- {}, CreateInputs <- {}, UpdateInputs <- {},
    StatusInputs <- {}, CancelInputs <- {}, MaxCommits <- 0,
    VehicleStatusInputs <- VehicleStatuses, DriverStatusInputs <- DriverStatuses,
    SettingsInputs <-
      { BookingSettings(s) : s \in SettingsInputs \cup {Effective(SeededSettings)} },
    DriverRates <- Rates,
    Retirable <- Ids,
    bookings <- [ b \in {} |-> None ], overnightStays <- [ b \in {} |-> {} ],
    auditLog <- [ b \in {} |-> << >> ], handlers <- [ h \in {} |-> None ], csn <- 0,
    vehicles <- VehiclesSeen, drivers <- DriversSeen, activeCustomers <- CustomersSeen,
    settings <- SettingsSeen

\* Every step of these services is one that Bookings allows its fleet, so what
\* is shown of bookings there holds with these services around them.
ImplementsBookingEnvironment == Environment!Spec

=============================================================================
