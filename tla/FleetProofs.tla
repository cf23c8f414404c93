----------------------------- MODULE FleetProofs -----------------------------
(***************************************************************************)
(* Theorems about Fleet for every set of rows, inputs and handlers, with   *)
(* requests interleaving and failing freely, and the proof that Fleet is   *)
(* an environment of Bookings.                                             *)
(***************************************************************************)
EXTENDS Fleet, TLAPS

-----------------------------------------------------------------------------
(***************************************************************************)
(* The inductive invariant.  A request in flight holds what its stage      *)
(* needs; a status change whose row is deleted meanwhile has been outrun;  *)
(* and what the audit log lacks of a row is what the one request between   *)
(* its write and its entry is about to add.                                *)
(***************************************************************************)
Sound(s) ==
  /\ s.stage = "loaded" =>
       /\ s.op \in {"update", "status", "delete"} /\ s.id \in InUse
       /\ s.op = "update" /\ s.id \in Drivers => s.key \in Rates \cup {None}
  /\ s.stage = "matched" =>
       /\ s.op \in {"create", "update"} /\ s.id \in Customers
       /\ s.op = "create" => s.key # None
       /\ s.op = "update" => s.id \in InUse
  /\ s.stage = "auditing" => s.op # "settings" /\ s.row # None /\ s.id \in InUse
  /\ s.stage \in {"reading", "settling"} => s.existing \in OvernightSettings

RequestsSound == \A h \in Handlers : Sound(handlers[h])

Waits(s) == s.stage = "loaded" \/ (s.stage = "matched" /\ s.op = "update")

StatusOf(h, id) == At(h, "loaded", "status") /\ handlers[h].id = id

OutrunKnown ==
  \A id \in InUse, h \in Handlers : rows[id].deleted /\ StatusOf(h, id) => id \in outrun

Before(h, id) == IF told[id] = None THEN handlers[h].row ELSE told[id]

AuditUpToDate(id) ==
  /\ (\A h \in Handlers : ~ About(h, id)) => told[id] = rows[id]
  /\ \A h \in Handlers : About(h, id) =>
       /\ Told(h, Before(h, id)) = rows[id]
       /\ \A g \in Handlers \ {h} : ~ About(g, id)

AuditSoFar == \A id \in InUse \ misreported : AuditUpToDate(id)

IInv ==
  /\ TypeOK /\ RequestsSound /\ OutrunKnown
  /\ DeletedStaysInactive /\ AuditSoFar /\ AuditTellsSettings

-----------------------------------------------------------------------------
(***************************************************************************)
(* Lemmas about the helpers.                                               *)
(***************************************************************************)

LEMMA IdleIsState == Idle \in HandlerStates /\ Idle.stage = "idle"
  BY DEF Idle, HandlerStates

\* The settings a reader gets have the types of the schema, whatever is stored.
LEMMA EffectiveType ==
  ASSUME NEW s \in SettingRows
  PROVE  Effective(s) \in OvernightSettings
<1> DEFINE d == defaultOvernightSettings
<1>2. d.rate \in Rates /\ d.pre \in Nat /\ d.post \in Nat /\ d.zone \in Zones
  BY FleetAssumption DEF defaultOvernightSettings
<1> HIDE DEF d
<1>3. /\ s.rate \in Rates \cup {None} /\ s.legacyRate \in Rates \cup {None}
      /\ s.pre \in Nat \cup {None} /\ s.post \in Nat \cup {None}
      /\ s.zone \in Zones \cup {None}
  BY DEF SettingRows
<1>4. /\ Given(s.rate, Given(s.legacyRate, d.rate)) \in Rates
      /\ Given(s.pre, d.pre) \in Nat
      /\ Given(s.post, d.post) \in Nat
      /\ Given(s.zone, d.zone) \in Zones
  BY <1>2, <1>3 DEF Given
<1> QED
  BY <1>4 DEF d, Effective, OvernightSettings

\* What updateOvernightSettings stores is what the next reader gets.
LEMMA StoredIsEffective ==
  ASSUME NEW s \in OvernightSettings
  PROVE  Stored(s) \in SettingRows /\ Effective(Stored(s)) = s
<1>1. Stored(s) \in SettingRows
  BY DEF Stored, SettingRows, OvernightSettings
<1>2. s.rate # None /\ s.pre # None /\ s.post # None /\ s.zone # None
  <2>1. s.rate \in Rates /\ s.pre \in Nat /\ s.post \in Nat /\ s.zone \in Zones
    BY DEF OvernightSettings
  <2>2. None \notin Keys \cup Nat \cup Zones
    BY FleetAssumption
  <2> QED
    BY <2>1, <2>2 DEF Keys
<1>3. Effective(Stored(s)) = [ rate |-> s.rate, pre |-> s.pre, post |-> s.post, zone |-> s.zone ]
  BY <1>2 DEF Effective, Stored, Given
<1> QED
  BY <1>1, <1>3 DEF OvernightSettings

\* A request that arrives: everybody else stays what they were.
LEMMA ReceiveFacts ==
  ASSUME TypeOK, NEW h \in Handlers, NEW s \in HandlerStates, Receive(h, s)
  PROVE  /\ handlers[h] = Idle
         /\ handlers' \in [ Handlers -> HandlerStates ]
         /\ requests' \in Nat
         /\ handlers'[h] = s
         /\ \A g \in Handlers \ {h} : handlers'[g] = handlers[g]
  BY DEF Receive, TypeOK

\* A request that ends leaves the others as they were.
LEMMA IdleAgain ==
  ASSUME TypeOK, RequestsSound, OutrunKnown, NEW h \in Handlers,
         handlers' = [ handlers EXCEPT ![h] = Idle ],
         UNCHANGED << rows, outrun >>
  PROVE  /\ handlers' \in [ Handlers -> HandlerStates ]
         /\ RequestsSound' /\ OutrunKnown'
         /\ handlers'[h] = Idle
         /\ \A g \in Handlers \ {h} : handlers'[g] = handlers[g]
<1> USE IdleIsState
<1>1. /\ handlers' \in [ Handlers -> HandlerStates ]
      /\ handlers'[h] = Idle
      /\ \A g \in Handlers \ {h} : handlers'[g] = handlers[g]
  BY DEF TypeOK
<1>2. RequestsSound'
  BY <1>1 DEF RequestsSound, Sound, InUse
<1>3. OutrunKnown'
  BY <1>1 DEF OutrunKnown, StatusOf, At, InUse
<1> QED
  BY <1>1, <1>2, <1>3

-----------------------------------------------------------------------------
(***************************************************************************)
(* The forms of a step.  Whatever the operation, it receives a request,    *)
(* writes one row in a way that the row's deletion bears, or touches no    *)
(* row.                                                                    *)
(***************************************************************************)
Received(h, s) ==
  /\ s \in HandlerStates /\ s.stage \in {"loaded", "matched", "reading"} /\ Sound(s)
  /\ Waits(s) => s.id \in Listed
  /\ s.stage = "matched" => s.op = "create" /\ s.id \in Unused(Customers)
  /\ s.stage = "reading" => s.id = None
  /\ Receive(h, s)
  /\ UNCHANGED << rows, systemSettings, told, toldSettings, outrun, misreported >>

Fits(id, row) == id \in Vehicles \cup Drivers /\ row.deleted => row.status = "INACTIVE"

\* The status is one of its table's.
Belongs(id, row) ==
  /\ id \in Vehicles => row.status \in VehicleStatuses
  /\ id \in Drivers => row.status \in DriverStatuses

Inserted(h, id, row) ==
  /\ id \in Unused(Vehicles) \cup Unused(Drivers) /\ row \in Rows /\ ~ row.deleted
  /\ Belongs(id, row)
  /\ id \in Drivers => row.key \in Rates
  /\ Insert(h, id, row)

\* What an update, a change of status and a deletion keep of the row.
Overwrites(h, row) ==
  LET before == rows[handlers[h].id] IN
  \/ /\ handlers[h].op = "create" /\ handlers[h].stage = "matched" /\ ~ row.deleted
     /\ handlers[h].id \in Customers
  \/ /\ handlers[h].op = "update"
     /\ row.status = before.status /\ row.deleted = before.deleted
     /\ handlers[h].id \in Drivers => row.key \in Rates \cup {before.key}
  \/ /\ handlers[h].op = "status" /\ row = [ before EXCEPT !.status = row.status ]
     /\ Belongs(handlers[h].id, row)
  \/ /\ handlers[h].op = "delete"
     /\ row = [ before EXCEPT !.status = row.status, !.deleted = TRUE ]
     /\ Fits(handlers[h].id, row)

Overwritten(h, row) ==
  /\ handlers[h].stage \in {"loaded", "matched"} /\ handlers[h].id \in Ids /\ row \in Rows
  /\ Overwrites(h, row)
  /\ Write(h, row)

Moved(h) ==
  /\ handlers' \in [ Handlers -> HandlerStates ] /\ Sound(handlers'[h])
  /\ \A g \in Handlers \ {h} : handlers'[g] = handlers[g]
  /\ handlers[h] # Idle /\ handlers[h].stage # "auditing" /\ handlers'[h].stage # "auditing"
  /\ handlers'[h].stage # "loaded" /\ handlers'[h].id = handlers[h].id
  /\ handlers'[h].stage = "matched" => handlers'[h].op = "update"
  /\ UNCHANGED << rows, systemSettings, told, toldSettings, outrun, misreported, requests >>

Settled(h) == handlers[h].stage = "settling" /\ UpdateSettings(h)

Ends(h) == RefusePlate(h) \/ Abort(h)

\* A row read or written has the fields of its table.
LEMMA RowsTyped ==
  ASSUME TypeOK, NEW id \in InUse
  PROVE  id \in Ids /\ rows[id] \in Rows
  BY DEF TypeOK, InUse

LEMMA LoadIsReceived ==
  ASSUME TypeOK, NEW h \in Handlers, NEW op \in {"update", "status", "delete"}, NEW id \in Ids,
         NEW key \in Keys \cup {None},
         op = "update" /\ id \in Drivers => key \in Rates \cup {None},
         Load(h, op, id, key)
  PROVE  \E s \in HandlerStates : Received(h, s)
<1> DEFINE s == [ Idle EXCEPT !.stage = "loaded", !.op = op, !.id = id, !.key = key,
                              !.existing = rows[id] ]
<1>1. id \in InUse /\ rows[id] \in Rows
  BY RowsTyped DEF Load, Listed
<1>2. op \in Operations
  BY DEF Operations
<1>3. s \in HandlerStates
  BY <1>1, <1>2, IdleIsState DEF HandlerStates
<1>4. s.stage = "loaded" /\ s.op = op /\ s.id = id /\ s.key = key
  BY IdleIsState DEF HandlerStates
<1>5. Receive(h, s) /\ id \in Listed
      /\ UNCHANGED << rows, systemSettings, told, toldSettings, outrun, misreported >>
  BY DEF Load
<1> HIDE DEF s
<1>6. Sound(s)
  BY <1>1, <1>4 DEF Sound
<1> QED
  BY <1>3, <1>4, <1>5, <1>6 DEF Received

\* Every operation that receives a request.
LEMMA ReadsReceive ==
  ASSUME TypeOK, NEW h \in Handlers,
         LoadVehicle(h) \/ LoadDriver(h) \/ LoadCustomer(h) \/ MatchNewCustomer(h) \/ BeginSettings(h)
  PROVE  \E s \in HandlerStates : Received(h, s)
<1>0. /\ None \notin Keys
      /\ Vehicles \cap Drivers = {} /\ Customers \cap Drivers = {}
      /\ Vehicles \subseteq Ids /\ Drivers \subseteq Ids /\ Customers \subseteq Ids
  BY FleetAssumption DEF Ids
<1>2. CASE LoadVehicle(h)
  <2>1. CASE \E v \in Vehicles, plate \in Plates \cup {None} : Load(h, "update", v, plate)
    BY <2>1, <1>0, LoadIsReceived DEF Keys
  <2>2. CASE \E v \in Vehicles, op \in {"status", "delete"} : Load(h, op, v, None)
    BY <2>2, <1>0, LoadIsReceived
  <2> QED
    BY <1>2, <2>1, <2>2 DEF LoadVehicle
<1>3. CASE LoadDriver(h)
  <2>1. CASE \E d \in Drivers, rate \in Rates \cup {None} : Load(h, "update", d, rate)
    BY <2>1, <1>0, LoadIsReceived DEF Keys
  <2>2. CASE \E d \in Drivers, op \in {"status", "delete"} : Load(h, op, d, None)
    BY <2>2, <1>0, LoadIsReceived
  <2> QED
    BY <1>3, <2>1, <2>2 DEF LoadDriver
<1>4. CASE LoadCustomer(h)
  <2>1. CASE \E c \in Customers, phone \in Phones \cup {None} : Load(h, "update", c, phone)
    BY <2>1, <1>0, LoadIsReceived DEF Keys
  <2>2. CASE \E c \in Customers : Load(h, "delete", c, None)
    BY <2>2, <1>0, LoadIsReceived
  <2> QED
    BY <1>4, <2>1, <2>2 DEF LoadCustomer
<1>5. CASE MatchNewCustomer(h)
  <2>1. PICK c \in Unused(Customers), phone \in Phones :
          /\ Receive(h, [ Idle EXCEPT !.stage = "matched", !.op = "create", !.id = c,
                                      !.key = phone ])
          /\ UNCHANGED << rows, systemSettings, told, toldSettings, outrun, misreported >>
    BY <1>5 DEF MatchNewCustomer
  <2> DEFINE s == [ Idle EXCEPT !.stage = "matched", !.op = "create", !.id = c, !.key = phone ]
  <2>2. c \in Customers /\ phone \in Keys /\ phone # None
    BY <1>0 DEF Unused, Keys
  <2>3. s \in HandlerStates
    BY <1>0, <2>2, IdleIsState DEF HandlerStates, Operations
  <2>4. s.stage = "matched" /\ s.op = "create" /\ s.id = c /\ s.key = phone
    BY IdleIsState DEF HandlerStates
  <2>5. Receive(h, s)
    BY <2>1
  <2> HIDE DEF s
  <2>6. Sound(s) /\ ~ Waits(s)
    BY <1>0, <2>2, <2>4 DEF Sound, Waits
  <2> QED
    BY <2>1, <2>3, <2>4, <2>5, <2>6 DEF Received
<1>6. CASE BeginSettings(h)
  <2> DEFINE s == [ Idle EXCEPT !.stage = "reading", !.op = "settings",
                                !.existing = Effective(systemSettings) ]
  <2>1. Effective(systemSettings) \in OvernightSettings
    BY EffectiveType DEF TypeOK
  <2>3. s \in HandlerStates
    BY <2>1, IdleIsState DEF HandlerStates, Operations
  <2>4. s.stage = "reading" /\ s.id = None /\ s.existing \in OvernightSettings
    BY <2>1, IdleIsState DEF HandlerStates, Idle
  <2>5. /\ Receive(h, s)
        /\ UNCHANGED << rows, systemSettings, told, toldSettings, outrun, misreported >>
    BY <1>6 DEF BeginSettings
  <2> HIDE DEF s
  <2> QED
    BY <2>3, <2>4, <2>5 DEF Received, Sound, Waits
<1> QED
  BY <1>2, <1>3, <1>4, <1>5, <1>6

LEMMA CreatesInsert ==
  ASSUME TypeOK, NEW h \in Handlers, CreateVehicle(h) \/ CreateDriver(h)
  PROVE  \E id \in Ids, row \in Rows : Inserted(h, id, row)
<1>1. ASSUME NEW key \in Keys, NEW status \in Statuses
      PROVE  [ key |-> key, status |-> status, deleted |-> FALSE ] \in Rows
  BY DEF Rows
<1>2. /\ VehicleStatusInputs \subseteq Statuses /\ DriverStatusInputs \subseteq Statuses
      /\ Plates \subseteq Keys /\ Rates \subseteq Keys
      /\ Unused(Vehicles) \subseteq Vehicles \ InUse
      /\ Unused(Drivers) \subseteq Drivers \ InUse
  BY FleetAssumption DEF Statuses, Keys, Unused
<1>3. CASE CreateVehicle(h)
  <2>1. PICK v \in Unused(Vehicles), plate \in Plates, status \in VehicleStatusInputs :
          Insert(h, v, [ key |-> plate, status |-> status, deleted |-> FALSE ])
    BY <1>3 DEF CreateVehicle
  <2> QED
    BY <1>1, <1>2, <2>1, FleetAssumption DEF Inserted, Belongs, Ids
<1>4. CASE CreateDriver(h)
  <2>1. PICK d \in Unused(Drivers), rate \in Rates, status \in DriverStatusInputs :
          Insert(h, d, [ key |-> rate, status |-> status, deleted |-> FALSE ])
    BY <1>4 DEF CreateDriver
  <2> QED
    BY <1>1, <1>2, <2>1, FleetAssumption DEF Inserted, Belongs, Ids
<1> QED
  BY <1>3, <1>4

\* The value a body gives, or the one that is there.
LEMMA GivenType ==
  ASSUME NEW S, NEW value \in S \cup {None}, NEW present \in S
  PROVE  Given(value, present) \in S
  BY DEF Given

\* Every operation that writes by id.
LEMMA WritesOverwrite ==
  ASSUME TypeOK, RequestsSound, NEW h \in Handlers,
         \/ UpdateVehicle(h) \/ UpdateVehicleStatus(h) \/ SoftDeleteVehicle(h)
         \/ UpdateDriver(h) \/ UpdateDriverStatus(h) \/ SoftDeleteDriver(h)
         \/ CreateCustomer(h) \/ UpdateCustomer(h) \/ DeleteCustomer(h)
  PROVE  \E row \in Rows : Overwritten(h, row)
<1> DEFINE p == handlers[h]
           before == rows[p.id]
<1>0. Sound(p) /\ p \in HandlerStates
  BY DEF RequestsSound, TypeOK
<1>1. ASSUME p.stage = "loaded" \/ (p.stage = "matched" /\ p.op = "update")
      PROVE  p.id \in Ids /\ before \in Rows
  BY <1>0, <1>1, RowsTyped DEF Sound
<1>2. p.key \in Keys \cup {None}
  BY <1>0 DEF HandlerStates
<1>3. VehicleStatusInputs \subseteq Statuses /\ DriverStatusInputs \subseteq Statuses
  BY FleetAssumption DEF Statuses
<1>4. ASSUME p.stage \in {"loaded", "matched"}, p.op = "update", NEW row,
             row = [ before EXCEPT !.key = Given(p.key, before.key) ], Write(h, row)
      PROVE  row \in Rows /\ Overwritten(h, row)
  <2>1. p.id \in Ids /\ before \in Rows
    BY <1>1, <1>4
  <2>2. Given(p.key, before.key) \in Keys
    BY <1>2, <1>4, <2>1, GivenType DEF Rows
  <2>3. /\ row \in Rows /\ row.status = before.status /\ row.deleted = before.deleted
        /\ row.key = Given(p.key, before.key)
    BY <1>4, <2>1, <2>2 DEF Rows
  <2>4. p.id \in Drivers => p.key \in Rates \cup {None}
    BY <1>0, <1>4, FleetAssumption DEF Sound
  <2>5. p.id \in Drivers => row.key \in Rates \cup {before.key}
    BY <2>3, <2>4 DEF Given
  <2> QED
    BY <1>4, <2>1, <2>3, <2>5 DEF Overwritten, Overwrites
<1>5. ASSUME At(h, "loaded", "status"), NEW status \in Statuses,
             p.id \in Vehicles => status \in VehicleStatuses,
             p.id \in Drivers => status \in DriverStatuses,
             Write(h, [ before EXCEPT !.status = status ])
      PROVE  \E row \in Rows : Overwritten(h, row)
  <2> DEFINE row == [ before EXCEPT !.status = status ]
  <2>1. p.id \in Ids /\ before \in Rows /\ p.stage = "loaded" /\ p.op = "status"
    BY <1>1, <1>5 DEF At
  <2>2. row \in Rows /\ row.status = status
    BY <2>1 DEF Rows
  <2>3. Overwrites(h, row)
    BY <1>5, <2>1, <2>2 DEF Overwrites, Belongs
  <2> HIDE DEF row
  <2>4. Write(h, row)
    BY <1>5 DEF row
  <2> QED
    BY <2>1, <2>2, <2>3, <2>4 DEF Overwritten
<1>6. ASSUME At(h, "loaded", "delete"),
             Write(h, [ before EXCEPT !.status = "INACTIVE", !.deleted = TRUE ])
      PROVE  \E row \in Rows : Overwritten(h, row)
  <2> DEFINE row == [ before EXCEPT !.status = "INACTIVE", !.deleted = TRUE ]
  <2>1. p.id \in Ids /\ before \in Rows /\ p.stage = "loaded" /\ p.op = "delete"
    BY <1>1, <1>6 DEF At
  <2>2. row \in Rows /\ row.status = "INACTIVE"
    BY <2>1 DEF Rows, Statuses, VehicleStatuses
  <2>3. Overwrites(h, row)
    BY <2>1, <2>2 DEF Overwrites, Fits
  <2> HIDE DEF row
  <2>4. Write(h, row)
    BY <1>6 DEF row
  <2> QED
    BY <2>1, <2>2, <2>3, <2>4 DEF Overwritten
<1>7. CASE UpdateVehicle(h)
  <2> DEFINE row == [ before EXCEPT !.key = Given(p.key, before.key) ]
  <2>1. p.stage = "loaded" /\ p.op = "update" /\ Write(h, row)
    BY <1>7 DEF UpdateVehicle, At
  <2> HIDE DEF row
  <2> QED
    BY <1>4, <2>1 DEF row
<1>8. CASE UpdateDriver(h)
  <2> DEFINE row == [ before EXCEPT !.key = Given(p.key, before.key) ]
  <2>1. p.stage = "loaded" /\ p.op = "update" /\ Write(h, row)
    BY <1>8 DEF UpdateDriver, At
  <2> HIDE DEF row
  <2> QED
    BY <1>4, <2>1 DEF row
<1>9. CASE UpdateCustomer(h)
  <2> DEFINE row == [ before EXCEPT !.key = Given(p.key, before.key) ]
  <2>1. p.stage = "matched" /\ p.op = "update" /\ Write(h, row)
    BY <1>9 DEF UpdateCustomer, At
  <2> HIDE DEF row
  <2> QED
    BY <1>4, <2>1 DEF row
<1>10. CASE UpdateVehicleStatus(h) \/ UpdateDriverStatus(h)
  <2>1. At(h, "loaded", "status")
    BY <1>10 DEF UpdateVehicleStatus, UpdateDriverStatus
  <2>2. PICK status \in Statuses :
          /\ p.id \in Vehicles => status \in VehicleStatuses
          /\ p.id \in Drivers => status \in DriverStatuses
          /\ Write(h, [ before EXCEPT !.status = status ])
    BY <1>10, <1>3, FleetAssumption DEF UpdateVehicleStatus, UpdateDriverStatus
  <2> QED
    BY <1>5, <2>1, <2>2
<1>11. CASE SoftDeleteVehicle(h) \/ SoftDeleteDriver(h)
  <2>1. /\ At(h, "loaded", "delete")
        /\ Write(h, [ before EXCEPT !.status = "INACTIVE", !.deleted = TRUE ])
    BY <1>11 DEF SoftDeleteVehicle, SoftDeleteDriver
  <2> QED
    BY <1>6, <2>1
<1>12. CASE CreateCustomer(h)
  <2> DEFINE row == [ key |-> p.key, status |-> None, deleted |-> FALSE ]
  <2>1. p.stage = "matched" /\ p.op = "create" /\ Write(h, row)
    BY <1>12 DEF CreateCustomer, At
  <2>2. p.id \in Customers /\ p.id \in Ids /\ p.key \in Keys
    BY <1>0, <1>2, <2>1 DEF Sound, Ids
  <2>3. row \in Rows /\ ~ row.deleted
    BY <2>2 DEF Rows, Statuses
  <2> HIDE DEF row
  <2> QED
    BY <2>1, <2>2, <2>3 DEF Overwritten, Overwrites
<1>13. CASE DeleteCustomer(h)
  <2> DEFINE row == [ before EXCEPT !.deleted = TRUE ]
  <2>1. /\ p.stage = "loaded" /\ p.op = "delete" /\ p.id \in Customers
        /\ Write(h, row)
    BY <1>13 DEF DeleteCustomer, At
  <2>2. p.id \in Ids /\ before \in Rows /\ p.id \notin Vehicles \cup Drivers
    BY <1>1, <2>1, FleetAssumption
  <2>3. row \in Rows /\ row.status = before.status
    BY <2>2 DEF Rows
  <2>4. row = [ before EXCEPT !.status = row.status, !.deleted = TRUE ]
    BY <2>2, <2>3 DEF Rows
  <2>5. Overwrites(h, row)
    BY <2>1, <2>2, <2>4 DEF Overwrites, Fits
  <2> HIDE DEF row
  <2> QED
    BY <2>1, <2>2, <2>3, <2>5 DEF Overwritten
<1> QED
  BY <1>7, <1>8, <1>9, <1>10, <1>11, <1>12, <1>13

\* The second read of an operation keeps the request what it was.
LEMMA ReadsMove ==
  ASSUME TypeOK, RequestsSound, NEW h \in Handlers, MatchCustomer(h) \/ ReadZone(h)
  PROVE  Moved(h)
<1> DEFINE p == handlers[h]
<1>0. Sound(p) /\ p \in HandlerStates
  BY DEF RequestsSound, TypeOK
<1>1. CASE MatchCustomer(h)
  <2>1. /\ p.stage = "loaded" /\ p.op = "update" /\ p.id \in Customers
        /\ handlers' = [ handlers EXCEPT ![h].stage = "matched" ]
        /\ UNCHANGED << rows, systemSettings, told, toldSettings, outrun, misreported, requests >>
    BY <1>1 DEF MatchCustomer, At
  <2>2. p.id \in InUse
    BY <1>0, <2>1 DEF Sound
  <2> DEFINE q == [ p EXCEPT !.stage = "matched" ]
  <2>3. handlers' = [ handlers EXCEPT ![h] = q ] /\ q \in HandlerStates
    BY <2>1, <1>0 DEF TypeOK, HandlerStates
  <2>4. q.stage = "matched" /\ q.op = p.op /\ q.id = p.id /\ q.key = p.key
    BY <1>0 DEF HandlerStates
  <2> HIDE DEF q
  <2>5. /\ handlers' \in [ Handlers -> HandlerStates ] /\ handlers'[h] = q
        /\ \A g \in Handlers \ {h} : handlers'[g] = handlers[g]
    BY <2>3 DEF TypeOK
  <2> QED
    BY <2>1, <2>2, <2>4, <2>5, IdleIsState DEF Moved, Sound
<1>2. CASE ReadZone(h)
  <2> DEFINE zone == Effective(systemSettings).zone
  <2>1. /\ p.stage = "reading"
        /\ handlers' = [ handlers EXCEPT ![h].stage = "settling", ![h].existing.zone = zone ]
        /\ UNCHANGED << rows, systemSettings, told, toldSettings, outrun, misreported, requests >>
    BY <1>2 DEF ReadZone
  <2>2. zone \in Zones
    BY EffectiveType DEF TypeOK, OvernightSettings
  <2> HIDE DEF zone
  <2>3. p.existing \in OvernightSettings
    BY <1>0, <2>1, IdleIsState DEF Sound
  <2>4. [ p.existing EXCEPT !.zone = zone ] \in OvernightSettings
    BY <2>2, <2>3 DEF OvernightSettings
  <2> DEFINE existing == [ p.existing EXCEPT !.zone = zone ]
             q == [ p EXCEPT !.stage = "settling", !.existing = existing ]
  <2>5. handlers' = [ handlers EXCEPT ![h] = q ]
    BY <2>1, <1>0 DEF TypeOK, HandlerStates
  <2> HIDE DEF existing
  <2>6. q \in HandlerStates
    BY <2>4 DEF TypeOK, HandlerStates, existing
  <2>7. /\ q.stage = "settling" /\ q.existing = existing /\ q.id = p.id
    BY DEF TypeOK, HandlerStates
  <2> HIDE DEF q
  <2>8. /\ handlers' \in [ Handlers -> HandlerStates ] /\ handlers'[h] = q
        /\ \A g \in Handlers \ {h} : handlers'[g] = handlers[g]
    BY <2>5, <2>6 DEF TypeOK
  <2> QED
    BY <2>1, <2>4, <2>7, <2>8, IdleIsState DEF Moved, Sound, existing
<1> QED
  BY <1>1, <1>2

\* Every step has one of these forms.
LEMMA StepForms ==
  ASSUME TypeOK, RequestsSound, NEW h \in Handlers, HandlerStep(h)
  PROVE  \/ \E s \in HandlerStates : Received(h, s)
         \/ \E id \in Ids, row \in Rows : Inserted(h, id, row)
         \/ \E row \in Rows : Overwritten(h, row)
         \/ Moved(h) \/ Audit(h) \/ Settled(h) \/ Ends(h) \/ UNCHANGED vars
<1>1. UpdateSettings(h) => Settled(h)
  BY DEF UpdateSettings, Settled
<1>2. Read(h) => UNCHANGED vars
  BY DEF Read
<1> QED
  BY <1>1, <1>2, ReadsReceive, CreatesInsert, WritesOverwrite, ReadsMove DEF HandlerStep, Ends

-----------------------------------------------------------------------------
(***************************************************************************)
(* The invariant, form by form.                                            *)
(***************************************************************************)

\* What the log will tell of a row once the entry of op is written.
Tells(op, row, before) ==
  IF op = "status" THEN [ before EXCEPT !.status = row.status ]
  ELSE IF op = "delete" THEN [ before EXCEPT !.status = row.status, !.deleted = row.deleted ]
  ELSE row

LEMMA ToldTells ==
  ASSUME NEW h \in Handlers, NEW before
  PROVE  Told(h, before) = Tells(handlers[h].op, handlers[h].row, before)
  BY DEF Told, Tells

\* A step that concerns another row leaves the log as far as it was.
LEMMA AuditKept ==
  ASSUME NEW id \in Ids, AuditUpToDate(id), told'[id] = told[id], rows'[id] = rows[id],
         \A g \in Handlers : About(g, id)' <=> About(g, id),
         \A g \in Handlers : About(g, id) =>
           handlers'[g].op = handlers[g].op /\ handlers'[g].row = handlers[g].row
  PROVE  AuditUpToDate(id)'
  BY DEF AuditUpToDate, Before, Told

LEMMA InitInvariant == Init => IInv
<1> SUFFICES ASSUME Init PROVE IInv
  OBVIOUS
<1> USE IdleIsState
<1>1. TypeOK
  <2>1. systemSettings \in SettingRows /\ toldSettings \in OvernightSettings
    BY FleetAssumption, EffectiveType DEF Init
  <2> QED
    BY <2>1 DEF Init, TypeOK
<1>2. RequestsSound
  BY DEF Init, RequestsSound, Sound
<1>3. InUse = {}
  BY DEF Init, InUse
<1>4. DeletedStaysInactive /\ AuditSoFar /\ AuditTellsSettings /\ OutrunKnown
  BY <1>3 DEF Init, OutrunKnown, DeletedStaysInactive, AuditSoFar, AuditTellsSettings
<1> QED
  BY <1>1, <1>2, <1>4 DEF IInv

LEMMA ReceivedInvariant ==
  ASSUME IInv, NEW h \in Handlers, NEW s \in HandlerStates, Received(h, s)
  PROVE  IInv'
<1> USE IdleIsState
<1>0. TypeOK /\ RequestsSound /\ OutrunKnown /\ AuditSoFar
  BY DEF IInv
<1>1. /\ handlers[h] = Idle
      /\ handlers' \in [ Handlers -> HandlerStates ]
      /\ requests' \in Nat
      /\ handlers'[h] = s
      /\ \A g \in Handlers \ {h} : handlers'[g] = handlers[g]
  BY <1>0, ReceiveFacts DEF Received
<1>2. UNCHANGED << rows, systemSettings, told, toldSettings, outrun, misreported >>
      /\ UNCHANGED InUse
  BY DEF Received, InUse
<1>3. TypeOK'
  BY <1>0, <1>1, <1>2 DEF TypeOK
<1>4. RequestsSound'
  <2>1. Sound(handlers[h])'
    BY <1>1, <1>2 DEF Received, Sound, InUse
  <2>2. ASSUME NEW g \in Handlers \ {h} PROVE Sound(handlers[g])'
    BY <1>0, <1>1, <1>2 DEF RequestsSound, Sound, InUse
  <2> QED
    BY <2>1, <2>2 DEF RequestsSound
<1>5. OutrunKnown'
  <2> SUFFICES ASSUME NEW id \in InUse, NEW g \in Handlers, rows[id].deleted, StatusOf(g, id)'
               PROVE  id \in outrun
    BY <1>2 DEF OutrunKnown, InUse
  <2>1. g # h
    BY <1>1 DEF Received, StatusOf, At, Waits, Listed
  <2>2. StatusOf(g, id)
    BY <1>1, <2>1 DEF StatusOf, At
  <2> QED
    BY <1>0, <2>2 DEF OutrunKnown
<1>6. DeletedStaysInactive' /\ AuditTellsSettings'
  BY <1>2 DEF IInv, DeletedStaysInactive, AuditTellsSettings, InUse
<1>7. AuditSoFar'
  <2> SUFFICES ASSUME NEW id \in InUse \ misreported PROVE AuditUpToDate(id)'
    BY <1>2 DEF AuditSoFar
  <2>1. \A g \in Handlers : About(g, id)' <=> About(g, id)
    BY <1>1 DEF About, Received
  <2>2. \A g \in Handlers : About(g, id) =>
          handlers'[g].op = handlers[g].op /\ handlers'[g].row = handlers[g].row
    BY <1>1 DEF About
  <2> QED
    BY <1>0, <1>2, <2>1, <2>2, AuditKept DEF AuditSoFar, InUse
<1> QED
  BY <1>3, <1>4, <1>5, <1>6, <1>7 DEF IInv

\* A write keeps the deletion that was there, or is a deletion that leaves its row
\* inactive and counts the status changes it outruns; and it adds to the log what
\* it changes, unless another entry of the row is due.
LEMMA WrittenInvariant ==
  ASSUME IInv, NEW h \in Handlers, NEW id \in Ids, NEW row \in Rows,
         Written(h, id, row),
         handlers' \in [ Handlers -> HandlerStates ], requests' \in Nat,
         handlers[h].stage # "auditing",
         handlers'[h].stage = "auditing", handlers'[h].op # "settings",
         handlers'[h].id = id, handlers'[h].row = row,
         \A g \in Handlers \ {h} : handlers'[g] = handlers[g],
         row.deleted /\ id \notin outrun => Fits(id, row),
         row.deleted => handlers'[h].op = "delete" \/ (id \in InUse /\ rows[id].deleted),
         (\A g \in Handlers : ~ About(g, id))
           /\ (id \notin misreported \/ handlers'[h].op \in {"create", "update"})
           => Tells(handlers'[h].op, row, IF told[id] = None THEN row ELSE told[id]) = row
  PROVE  IInv'
<1> USE IdleIsState
<1>0. TypeOK /\ RequestsSound /\ OutrunKnown /\ AuditSoFar /\ DeletedStaysInactive
  BY DEF IInv
<1>1. /\ rows' = [ rows EXCEPT ![id] = row ]
      /\ rows' \in [ Ids -> Rows \cup {None} ] /\ rows'[id] = row
      /\ \A x \in Ids \ {id} : rows'[x] = rows[x]
      /\ UNCHANGED << systemSettings, told, toldSettings >>
  BY <1>0 DEF Written, TypeOK
<1>2. /\ outrun \subseteq outrun' /\ outrun' \subseteq outrun \cup {id}
      /\ \A g \in Handlers : handlers'[h].op = "delete" /\ StatusOf(g, id) => id \in outrun'
  BY DEF Written, StatusOf
<1>3. /\ misreported \subseteq misreported' \cup {id} /\ misreported' \subseteq misreported \cup {id}
      /\ id \notin misreported' =>
           /\ \A g \in Handlers : ~ About(g, id)
           /\ id \notin misreported \/ handlers'[h].op \in {"create", "update"}
  BY DEF Written
<1>4. row # None
  BY FleetAssumption
<1>5. /\ InUse \subseteq InUse' /\ id \in InUse'
      /\ \A x \in InUse' \ {id} : x \in InUse
      /\ InUse \subseteq Ids /\ InUse' \subseteq Ids
  BY <1>1, <1>4 DEF InUse
<1>6. TypeOK'
  BY <1>0, <1>1, <1>2, <1>3 DEF TypeOK
<1>7. RequestsSound'
  <2>1. Sound(handlers[h])'
    BY <1>4, <1>5 DEF Sound
  <2>2. ASSUME NEW g \in Handlers \ {h} PROVE Sound(handlers[g])'
    BY <1>0, <1>5 DEF RequestsSound, Sound
  <2> QED
    BY <2>1, <2>2 DEF RequestsSound
<1>8. OutrunKnown'
  <2> SUFFICES ASSUME NEW x \in InUse', NEW g \in Handlers, rows'[x].deleted, StatusOf(g, x)'
               PROVE  x \in outrun'
    BY DEF OutrunKnown
  <2>1. g # h
    BY DEF StatusOf, At
  <2>2. StatusOf(g, x)
    BY <2>1 DEF StatusOf, At
  <2>3. CASE x = id
    <3>1. row.deleted
      BY <1>1, <2>3
    <3>2. CASE handlers'[h].op = "delete"
      BY <1>2, <2>2, <2>3, <3>2
    <3>3. CASE id \in InUse /\ rows[id].deleted
      BY <1>0, <1>2, <2>2, <2>3, <3>3 DEF OutrunKnown
    <3> QED
      BY <3>1, <3>2, <3>3
  <2>4. CASE x # id
    BY <1>0, <1>1, <1>2, <1>5, <2>2, <2>4 DEF OutrunKnown
  <2> QED
    BY <2>3, <2>4
<1>9. DeletedStaysInactive'
  <2> SUFFICES ASSUME NEW x \in (Vehicles \cup Drivers) \cap InUse', rows'[x].deleted,
                      x \notin outrun'
               PROVE  rows'[x].status = "INACTIVE"
    BY DEF DeletedStaysInactive
  <2>1. CASE x = id
    BY <1>1, <1>2, <2>1 DEF Fits
  <2>2. CASE x # id
    BY <1>0, <1>1, <1>2, <1>5, <2>2 DEF DeletedStaysInactive
  <2> QED
    BY <2>1, <2>2
<1>10. AuditSoFar'
  <2> SUFFICES ASSUME NEW x \in InUse' \ misreported' PROVE AuditUpToDate(x)'
    BY DEF AuditSoFar
  <2>1. CASE x = id
    <3>1. /\ \A g \in Handlers : ~ About(g, id)
          /\ Tells(handlers'[h].op, row, IF told[id] = None THEN row ELSE told[id]) = row
      BY <1>3, <2>1
    <3>2. About(h, x)'
      BY <2>1 DEF About
    <3>3. \A g \in Handlers \ {h} : ~ About(g, x)'
      BY <2>1, <3>1 DEF About
    <3>4. Told(h, Before(h, x))' = rows'[x]
      <4>1. Before(h, x)' = IF told[id] = None THEN row ELSE told[id]
        BY <1>1, <2>1 DEF Before
      <4>2. Told(h, Before(h, x))' = Tells(handlers'[h].op, row, Before(h, x)')
        BY DEF Told, Tells
      <4> QED
        BY <1>1, <2>1, <3>1, <4>1, <4>2
    <3> QED
      BY <3>2, <3>3, <3>4 DEF AuditUpToDate
  <2>2. CASE x # id
    <3>1. x \in InUse \ misreported /\ x \in Ids /\ rows'[x] = rows[x] /\ told'[x] = told[x]
      BY <1>1, <1>3, <1>5, <2>2
    <3>2. \A g \in Handlers : About(g, x)' <=> About(g, x)
      BY <2>2 DEF About
    <3>3. \A g \in Handlers : About(g, x) =>
            handlers'[g].op = handlers[g].op /\ handlers'[g].row = handlers[g].row
      BY DEF About
    <3> QED
      BY <1>0, <3>1, <3>2, <3>3, AuditKept DEF AuditSoFar
  <2> QED
    BY <2>1, <2>2
<1>11. AuditTellsSettings'
  BY <1>1 DEF IInv, AuditTellsSettings
<1> QED
  BY <1>6, <1>7, <1>8, <1>9, <1>10, <1>11 DEF IInv

LEMMA InsertedInvariant ==
  ASSUME IInv, NEW h \in Handlers, NEW id \in Ids, NEW row \in Rows, Inserted(h, id, row)
  PROVE  IInv'
<1> DEFINE s == [ Idle EXCEPT !.stage = "auditing", !.op = "create", !.id = id, !.row = row ]
<1> USE IdleIsState
<1>1. s \in HandlerStates
  BY DEF HandlerStates, Operations
<1>2. s.stage = "auditing" /\ s.op = "create" /\ s.id = id /\ s.row = row
  BY DEF HandlerStates
<1>3. Receive(h, s) /\ Written(h, id, row)
  BY DEF Inserted, Insert
<1> HIDE DEF s
<1>4. /\ handlers[h] = Idle
      /\ handlers' \in [ Handlers -> HandlerStates ]
      /\ requests' \in Nat
      /\ handlers'[h] = s
      /\ \A g \in Handlers \ {h} : handlers'[g] = handlers[g]
  BY <1>1, <1>3, ReceiveFacts DEF IInv
<1>5. ~ row.deleted
  BY DEF Inserted
<1>6. Tells(s.op, row, IF told[id] = None THEN row ELSE told[id]) = row
  BY <1>2 DEF Tells
<1> QED
  BY <1>2, <1>3, <1>4, <1>5, <1>6, WrittenInvariant

LEMMA OverwrittenInvariant ==
  ASSUME IInv, NEW h \in Handlers, NEW row \in Rows, Overwritten(h, row)
  PROVE  IInv'
<1> DEFINE p == handlers[h]
           q == [ p EXCEPT !.stage = "auditing", !.row = row ]
           before == rows[p.id]
<1> USE IdleIsState
<1>0. TypeOK /\ RequestsSound /\ OutrunKnown /\ AuditSoFar /\ DeletedStaysInactive
  BY DEF IInv
<1>1. /\ p \in HandlerStates /\ Sound(p) /\ p.id \in Ids
      /\ p.stage \in {"loaded", "matched"}
  BY <1>0 DEF TypeOK, RequestsSound, Overwritten
<1>2. q \in HandlerStates
  BY <1>1 DEF HandlerStates
<1>3. q.stage = "auditing" /\ q.row = row /\ q.op = p.op /\ q.id = p.id
  BY <1>1 DEF HandlerStates
<1>4. handlers' = [ handlers EXCEPT ![h] = q ] /\ Written(h, p.id, row) /\ requests' \in Nat
  BY <1>0 DEF Overwritten, Write, TypeOK, HandlerStates
<1> HIDE DEF q
<1>5. /\ handlers' \in [ Handlers -> HandlerStates ] /\ handlers'[h] = q
      /\ \A g \in Handlers \ {h} : handlers'[g] = handlers[g]
  BY <1>0, <1>2, <1>4 DEF TypeOK
<1>6. /\ p.op \in {"create", "update", "status", "delete"}
      /\ p.op # "create" => Waits(p)
  BY <1>1 DEF Sound, Waits
<1>7. ASSUME p.op # "create" PROVE p.id \in InUse /\ before \in Rows
  BY <1>0, <1>1, <1>6, <1>7, RowsTyped DEF Sound, Waits
<1>8. ASSUME row.deleted PROVE p.op = "delete" \/ (p.id \in InUse /\ before.deleted)
  <2>1. CASE p.op = "create"
    BY <1>8, <2>1 DEF Overwritten, Overwrites
  <2>2. CASE p.op \in {"update", "status"}
    <3>1. row.deleted = before.deleted
      BY <1>7, <2>2 DEF Overwritten, Overwrites, Rows
    <3> QED
      BY <1>7, <1>8, <2>2, <3>1
  <2> QED
    BY <1>6, <2>1, <2>2
<1>9. ASSUME row.deleted, p.id \notin outrun PROVE Fits(p.id, row)
  <2>1. CASE p.op = "create"
    BY <1>9, <2>1 DEF Overwritten, Overwrites
  <2>2. CASE p.op = "update"
    <3>1. /\ p.id \in InUse /\ row.status = before.status /\ before.deleted
      BY <1>7, <1>9, <2>2 DEF Overwritten, Overwrites
    <3>2. p.id \in Vehicles \cup Drivers => before.status = "INACTIVE"
      BY <1>0, <1>9, <3>1 DEF DeletedStaysInactive
    <3> QED
      BY <3>1, <3>2 DEF Fits
  <2>3. CASE p.op = "status"
    <3>1. p.id \in InUse /\ before.deleted
      BY <1>8, <1>9, <2>3
    <3>2. StatusOf(h, p.id)
      BY <1>1, <2>3 DEF StatusOf, At, Sound
    <3> QED
      BY <1>0, <1>9, <3>1, <3>2 DEF OutrunKnown
  <2>4. CASE p.op = "delete"
    BY <2>4 DEF Overwritten, Overwrites
  <2> QED
    BY <1>6, <2>1, <2>2, <2>3, <2>4
<1>10. ASSUME \A g \in Handlers : ~ About(g, p.id),
              p.id \notin misreported \/ p.op \in {"create", "update"}
       PROVE  Tells(p.op, row, IF told[p.id] = None THEN row ELSE told[p.id]) = row
  <2>1. CASE p.op \in {"create", "update"}
    BY <2>1 DEF Tells
  <2>2. CASE p.op \in {"status", "delete"}
    <3>1. p.id \in InUse \ misreported /\ before \in Rows
      BY <1>7, <1>10, <2>2
    <3>2. told[p.id] = before
      BY <1>0, <1>10, <3>1 DEF AuditSoFar, AuditUpToDate
    <3>3. before # None
      BY <3>1, FleetAssumption
    <3>4. CASE p.op = "status"
      BY <3>2, <3>3, <3>4 DEF Overwritten, Overwrites, Tells
    <3>5. CASE p.op = "delete"
      <4>1. row = [ before EXCEPT !.status = row.status, !.deleted = TRUE ]
        BY <3>5 DEF Overwritten, Overwrites
      <4>2. row.deleted = TRUE
        BY <3>1, <4>1 DEF Rows
      <4> QED
        BY <3>2, <3>3, <3>5, <4>1, <4>2 DEF Tells
    <3> QED
      BY <2>2, <3>4, <3>5
  <2> QED
    BY <1>6, <2>1, <2>2
<1>11. p.op # "settings" /\ p.stage # "auditing"
  BY <1>1, <1>6
<1> QED
  BY <1>1, <1>3, <1>4, <1>5, <1>8, <1>9, <1>10, <1>11, WrittenInvariant

\* A request that ends without its entry has its row misreported, or unwritten.
LEMMA EndsInvariant ==
  ASSUME IInv, NEW h \in Handlers,
         handlers' = [ handlers EXCEPT ![h] = Idle ], requests' \in Nat,
         UNCHANGED << rows, told, outrun >>,
         systemSettings' \in SettingRows, toldSettings' \in OvernightSettings,
         AuditTellsSettings',
         misreported \subseteq misreported', misreported' \in SUBSET Ids,
         handlers[h].stage = "auditing" => handlers[h].id \in misreported'
  PROVE  IInv'
<1> USE IdleIsState
<1>0. TypeOK /\ AuditSoFar
  BY DEF IInv
<1>1. /\ handlers' \in [ Handlers -> HandlerStates ]
      /\ RequestsSound' /\ OutrunKnown'
      /\ handlers'[h] = Idle
      /\ \A g \in Handlers \ {h} : handlers'[g] = handlers[g]
  BY IdleAgain DEF IInv
<1>2. TypeOK'
  BY <1>0, <1>1 DEF TypeOK
<1>3. DeletedStaysInactive'
  BY DEF IInv, DeletedStaysInactive, InUse
<1>4. AuditSoFar'
  <2> SUFFICES ASSUME NEW x \in InUse' \ misreported' PROVE AuditUpToDate(x)'
    BY DEF AuditSoFar
  <2>1. x \in InUse \ misreported /\ x \in Ids
    BY DEF InUse
  <2>2. \A g \in Handlers : About(g, x)' <=> About(g, x)
    BY <1>1 DEF About
  <2>3. \A g \in Handlers : About(g, x) =>
          handlers'[g].op = handlers[g].op /\ handlers'[g].row = handlers[g].row
    BY <1>1, <2>2 DEF About
  <2> QED
    BY <1>0, <2>1, <2>2, <2>3, AuditKept DEF AuditSoFar
<1> QED
  BY <1>1, <1>2, <1>3, <1>4 DEF IInv

LEMMA MovedInvariant ==
  ASSUME IInv, NEW h \in Handlers, Moved(h)
  PROVE  IInv'
<1> USE IdleIsState
<1>0. TypeOK /\ AuditSoFar /\ OutrunKnown /\ RequestsSound
  BY DEF IInv
<1>1. UNCHANGED InUse
  BY DEF Moved, InUse
<1>2. TypeOK' /\ AuditTellsSettings'
  BY DEF IInv, TypeOK, AuditTellsSettings, Moved
<1>3. RequestsSound'
  <2>1. \A g \in Handlers \ {h} : Sound(handlers[g])'
    BY <1>0, <1>1 DEF RequestsSound, Moved, Sound
  <2>2. Sound(handlers[h])'
    BY <1>1 DEF Moved, Sound
  <2> QED
    BY <2>1, <2>2 DEF RequestsSound
<1>4. OutrunKnown'
  BY <1>0, <1>1 DEF OutrunKnown, Moved, StatusOf, At
<1>5. DeletedStaysInactive'
  BY DEF IInv, DeletedStaysInactive, InUse, Moved
<1>6. AuditSoFar'
  <2> SUFFICES ASSUME NEW x \in InUse \ misreported PROVE AuditUpToDate(x)'
    BY <1>1 DEF AuditSoFar, Moved
  <2>1. \A g \in Handlers : About(g, x)' <=> About(g, x)
    BY DEF About, Moved
  <2>2. \A g \in Handlers : About(g, x) =>
          handlers'[g].op = handlers[g].op /\ handlers'[g].row = handlers[g].row
    BY DEF About, Moved
  <2> QED
    BY <1>0, <2>1, <2>2, AuditKept DEF AuditSoFar, InUse, Moved
<1> QED
  BY <1>2, <1>3, <1>4, <1>5, <1>6 DEF IInv

LEMMA AuditInvariant ==
  ASSUME IInv, NEW h \in Handlers, Audit(h)
  PROVE  IInv'
<1> DEFINE id == handlers[h].id
<1> USE IdleIsState
<1>0. TypeOK /\ AuditSoFar /\ RequestsSound
  BY DEF IInv
<1>1. /\ handlers[h] \in HandlerStates /\ handlers[h].stage = "auditing"
      /\ handlers[h].row \in Rows /\ id \in InUse /\ id \in Ids
  BY <1>0 DEF Audit, TypeOK, HandlerStates, RequestsSound, Sound, InUse
<1>2. /\ told' = [ told EXCEPT ![id] = Told(h, Before(h, id)) ]
      /\ handlers' = [ handlers EXCEPT ![h] = Idle ]
      /\ UNCHANGED << rows, systemSettings, toldSettings, outrun, misreported, requests >>
  BY DEF Audit, Before
<1>3. /\ handlers' \in [ Handlers -> HandlerStates ]
      /\ RequestsSound' /\ OutrunKnown'
      /\ handlers'[h] = Idle
      /\ \A g \in Handlers \ {h} : handlers'[g] = handlers[g]
  BY <1>2, IdleAgain DEF IInv
<1>4. Before(h, id) \in Rows
  BY <1>0, <1>1 DEF Before, TypeOK
<1>5. Told(h, Before(h, id)) \in Rows
  BY <1>1, <1>4 DEF Told, Rows
<1>6. TypeOK'
  BY <1>0, <1>2, <1>3, <1>5 DEF TypeOK
<1>7. DeletedStaysInactive' /\ AuditTellsSettings'
  BY <1>2 DEF IInv, DeletedStaysInactive, AuditTellsSettings, InUse
<1>8. AuditSoFar'
  <2> SUFFICES ASSUME NEW x \in InUse \ misreported PROVE AuditUpToDate(x)'
    BY <1>2 DEF AuditSoFar, InUse
  <2>1. CASE x = id
    <3>1. About(h, x) /\ AuditUpToDate(x)
      BY <1>0, <1>1, <2>1 DEF About, AuditSoFar
    <3>2. Told(h, Before(h, x)) = rows[x] /\ \A g \in Handlers \ {h} : ~ About(g, x)
      BY <3>1 DEF AuditUpToDate
    <3>3. told'[x] = rows'[x]
      BY <1>0, <1>1, <1>2, <2>1, <3>2 DEF TypeOK
    <3>4. \A g \in Handlers : ~ About(g, x)'
      BY <1>3, <3>2 DEF About
    <3> QED
      BY <3>3, <3>4 DEF AuditUpToDate
  <2>2. CASE x # id
    <3>1. \A g \in Handlers : About(g, x)' <=> About(g, x)
      BY <1>3, <2>2 DEF About
    <3>2. \A g \in Handlers : About(g, x) =>
            handlers'[g].op = handlers[g].op /\ handlers'[g].row = handlers[g].row
      BY <1>3, <2>2 DEF About
    <3>3. x \in Ids /\ told'[x] = told[x] /\ rows'[x] = rows[x]
      BY <1>0, <1>2, <2>2 DEF InUse, TypeOK
    <3> QED
      BY <1>0, <3>1, <3>2, <3>3, AuditKept DEF AuditSoFar
  <2> QED
    BY <2>1, <2>2
<1> QED
  BY <1>3, <1>6, <1>7, <1>8 DEF IInv

LEMMA NextInvariant ==
  ASSUME IInv, [Next]_vars
  PROVE  IInv'
<1>1. CASE UNCHANGED vars
  <2>1. TypeOK' /\ AuditTellsSettings' /\ DeletedStaysInactive'
    BY <1>1 DEF vars, IInv, TypeOK, AuditTellsSettings, DeletedStaysInactive, InUse
  <2>2. RequestsSound' /\ OutrunKnown'
    BY <1>1 DEF vars, IInv, RequestsSound, Sound, InUse, OutrunKnown, StatusOf, At
  <2>3. AuditSoFar'
    <3> SUFFICES ASSUME NEW x \in Ids, x \in InUse \ misreported
                 PROVE  AuditUpToDate(x)'
      BY <1>1 DEF vars, AuditSoFar, InUse
    <3>1. AuditUpToDate(x)
      BY DEF IInv, AuditSoFar
    <3>2. /\ told'[x] = told[x] /\ rows'[x] = rows[x] /\ handlers' = handlers
          /\ \A g \in Handlers : About(g, x)' <=> About(g, x)
      BY <1>1 DEF vars, About
    <3> QED
      BY <3>1, <3>2, AuditKept
  <2> QED
    BY <2>1, <2>2, <2>3 DEF IInv
<1>2. ASSUME NEW h \in Handlers, HandlerStep(h)
      PROVE  IInv'
  <2>1. CASE Settled(h)
    <3>1. PICK input \in SettingsInputs :
            systemSettings' = Stored(input) /\ toldSettings' = input
      BY <2>1 DEF Settled, UpdateSettings
    <3>2. input \in OvernightSettings
      BY FleetAssumption
    <3>3. Stored(input) \in SettingRows /\ Effective(Stored(input)) = input
      BY <3>2, StoredIsEffective
    <3>4. /\ handlers' = [ handlers EXCEPT ![h] = Idle ] /\ handlers[h].stage = "settling"
          /\ UNCHANGED << rows, told, outrun, misreported, requests >>
      BY <2>1 DEF Settled, UpdateSettings
    <3>5. AuditTellsSettings'
      BY <3>1, <3>3 DEF AuditTellsSettings
    <3> QED
      BY <3>1, <3>2, <3>3, <3>4, <3>5, EndsInvariant DEF IInv, TypeOK
  <2>2. CASE Ends(h)
    <3>1. /\ handlers' = [ handlers EXCEPT ![h] = Idle ]
          /\ UNCHANGED << rows, systemSettings, told, toldSettings, requests >>
      BY <2>2 DEF Ends, RefusePlate, Abort
    <3>2. /\ misreported \subseteq misreported' /\ misreported' \in SUBSET Ids
          /\ outrun' = outrun
          /\ handlers[h].stage = "auditing" => handlers[h].id \in misreported'
      <4>1. handlers[h].stage = "auditing" => handlers[h].id \in Ids
        BY DEF IInv, RequestsSound, Sound, InUse
      <4>2. handlers[h].stage = "auditing" => Abort(h)
        BY <2>2 DEF Ends, RefusePlate, At
      <4> QED
        BY <2>2, <4>1, <4>2 DEF Ends, RefusePlate, Abort, About, IInv, TypeOK
    <3>3. AuditTellsSettings'
      BY <3>1 DEF IInv, AuditTellsSettings
    <3> QED
      BY <3>1, <3>2, <3>3, EndsInvariant DEF IInv, TypeOK
  <2> QED
    BY <1>1, <1>2, <2>1, <2>2, StepForms, ReceivedInvariant, InsertedInvariant,
       OverwrittenInvariant, MovedInvariant, AuditInvariant DEF IInv
<1> QED
  BY <1>1, <1>2 DEF Next

LEMMA Invariant == Spec => []IInv
<1>1. IInv /\ [Next]_vars => IInv'
  BY NextInvariant
<1> QED
  BY InitInvariant, <1>1, PTL DEF Spec

-----------------------------------------------------------------------------

\* Tables, log and requests of the fleet and settings services keep their types.
THEOREM FleetTypeCorrect == Spec => []TypeOK
<1>1. IInv => TypeOK
  BY DEF IInv
<1> QED
  BY Invariant, <1>1, PTL

\* A deleted vehicle or driver is inactive, but for a status change that found it
\* before its deletion (softDeleteVehicle, softDeleteDriver).
THEOREM DeletedStaysInactiveAlways == Spec => []DeletedStaysInactive
<1>1. IInv => DeletedStaysInactive
  BY DEF IInv
<1> QED
  BY Invariant, <1>1, PTL

\* The audit log tells the fields of a row whenever no entry of it is due, unless
\* an entry was lost or crossed another and no update has followed.
THEOREM AuditTellsRowsAlways == Spec => []AuditTellsRows
<1>1. ASSUME IInv, NEW id \in InUse \ misreported, \A h \in Handlers : ~ About(h, id)
      PROVE  told[id] = rows[id]
  BY <1>1 DEF IInv, AuditSoFar, AuditUpToDate
<1>2. IInv => AuditTellsRows
  BY <1>1 DEF AuditTellsRows
<1> QED
  BY Invariant, <1>2, PTL

\* The last settings entry of the audit log tells what a booking will read,
\* whatever was stored before and however requests interleave.
THEOREM AuditTellsSettingsAlways == Spec => []AuditTellsSettings
<1>1. IInv => AuditTellsSettings
  BY DEF IInv
<1> QED
  BY Invariant, <1>1, PTL

-----------------------------------------------------------------------------
(***************************************************************************)
(* The environment of Bookings: Fleet does to vehicles, drivers, customers *)
(* and settings only what Bookings lets its environment do.                *)
(*                                                                         *)
(* A customer about to be inserted has an id that nothing else has:        *)
(* otherwise the insert could bring back one that was deleted.             *)
(***************************************************************************)
New(h) ==
  handlers[h].id \notin InUse /\ \A g \in Handlers \ {h} : handlers[g].id # handlers[h].id

CreatesNew ==
  \A h \in Handlers : handlers[h].stage = "matched" /\ handlers[h].op = "create" => New(h)

\* The ids of requests, before and after one is received.
LEMMA IdsReceived ==
  ASSUME TypeOK, NEW h \in Handlers, NEW s \in HandlerStates, Receive(h, s)
  PROVE  /\ handlers[h] = Idle
         /\ handlers'[h].stage = s.stage /\ handlers'[h].op = s.op /\ handlers'[h].id = s.id
         /\ \A g \in Handlers \ {h} :
              /\ handlers'[g].stage = handlers[g].stage /\ handlers'[g].op = handlers[g].op
              /\ handlers'[g].id = handlers[g].id
  BY ReceiveFacts

\* Steps that write no row: a request that creates stays the only one with its id.
LEMMA CreatesNewKept ==
  ASSUME IInv, CreatesNew, NEW h \in Handlers, rows' = rows,
         \A g \in Handlers \ {h} : handlers'[g] = handlers[g],
         handlers'[h].id \in {handlers[h].id, None},
         handlers'[h].stage = "matched" => handlers'[h].op # "create"
  PROVE  CreatesNew'
<1>1. \A g \in Handlers :
        handlers[g].stage = "matched" /\ handlers[g].op = "create" => handlers[g].id # None
  BY FleetAssumption DEF IInv, RequestsSound, Sound, Ids
<1> QED
  BY <1>1 DEF CreatesNew, New, InUse

\* A step that writes the row of h: the requests that create have other ids.
LEMMA CreatesNewWritten ==
  ASSUME CreatesNew, NEW h \in Handlers, NEW id \in Ids,
         \A other \in Ids \ {id} : rows'[other] = rows[other],
         handlers'[h].stage = "auditing", handlers'[h].id = id,
         \A g \in Handlers \ {h} :
           /\ handlers'[g].stage = handlers[g].stage /\ handlers'[g].op = handlers[g].op
           /\ handlers'[g].id = handlers[g].id
           /\ handlers[g].stage = "matched" /\ handlers[g].op = "create" => handlers[g].id # id
  PROVE  CreatesNew'
<1> SUFFICES ASSUME NEW g \in Handlers, (handlers[g].stage = "matched")',
                    (handlers[g].op = "create")'
             PROVE  New(g)'
  BY DEF CreatesNew
<1>1. g # h
  OBVIOUS
<1>2. New(g) /\ handlers'[g].id = handlers[g].id /\ handlers[g].id # id
  BY <1>1 DEF CreatesNew
<1>3. handlers[g].id \in Ids => rows'[handlers[g].id] = rows[handlers[g].id]
  BY <1>2
<1>4. handlers[g].id \notin InUse'
  BY <1>2, <1>3 DEF New, InUse
<1>5. \A f \in Handlers \ {g} : handlers'[f].id # handlers[g].id
  BY <1>2 DEF New
<1> QED
  BY <1>2, <1>4, <1>5 DEF New

LEMMA CreatesNewNext ==
  ASSUME IInv, CreatesNew, [Next]_vars
  PROVE  CreatesNew'
<1>0. TypeOK /\ RequestsSound
  BY DEF IInv
<1>1. CASE UNCHANGED vars
  BY <1>1 DEF vars, CreatesNew, New, InUse
<1>2. ASSUME NEW h \in Handlers, HandlerStep(h), ~ UNCHANGED vars
      PROVE  CreatesNew'
  <2>1. ASSUME NEW s \in HandlerStates, Received(h, s)
        PROVE  CreatesNew'
    <3>1. Receive(h, s) /\ rows' = rows /\ Sound(s)
      BY <2>1 DEF Received
    <3>2. /\ handlers'[h].stage = s.stage /\ handlers'[h].op = s.op /\ handlers'[h].id = s.id
          /\ \A g \in Handlers \ {h} :
               /\ handlers'[g].stage = handlers[g].stage /\ handlers'[g].op = handlers[g].op
               /\ handlers'[g].id = handlers[g].id
      BY <1>0, <3>1, IdsReceived
    <3>3. s.stage = "matched" => New(h)'
      BY <2>1, <3>1, <3>2 DEF Received, Unused, New, InUse
    <3>4. ASSUME NEW g \in Handlers \ {h}, handlers[g].stage = "matched", handlers[g].op = "create"
          PROVE  New(g)'
      <4>1. New(g) /\ handlers[g].id \in Customers
        BY <1>0, <3>4 DEF CreatesNew, RequestsSound, Sound
      <4>2. s.stage = "loaded" => s.id \in InUse
        BY <3>1 DEF Sound
      <4>3. s.id # handlers[g].id
        BY <2>1, <4>1, <4>2, FleetAssumption DEF Received, Unused, New, Ids
      <4> QED
        BY <3>1, <3>2, <4>1, <4>3 DEF New, InUse
    <3> QED
      BY <3>2, <3>3, <3>4 DEF CreatesNew
  <2>2. ASSUME NEW id \in Ids, NEW row \in Rows, Inserted(h, id, row)
        PROVE  CreatesNew'
    <3> DEFINE s == [ Idle EXCEPT !.stage = "auditing", !.op = "create", !.id = id, !.row = row ]
    <3>0. "create" \in Operations
      BY DEF Operations
    <3>1. s \in HandlerStates
      BY <3>0, IdleIsState DEF HandlerStates
    <3>2. s.stage = "auditing" /\ s.id = id
      BY IdleIsState DEF HandlerStates
    <3>3. Receive(h, s) /\ rows' = [ rows EXCEPT ![id] = row ]
      BY <2>2 DEF Inserted, Insert, Written
    <3> HIDE DEF s
    <3>4. \A g \in Handlers : handlers[g].id # id
      BY <2>2 DEF Inserted, Unused
    <3>5. /\ handlers'[h].stage = "auditing" /\ handlers'[h].id = id
          /\ \A g \in Handlers \ {h} :
               /\ handlers'[g].stage = handlers[g].stage /\ handlers'[g].op = handlers[g].op
               /\ handlers'[g].id = handlers[g].id
      BY <1>0, <3>1, <3>2, <3>3, IdsReceived
    <3>6. \A other \in Ids \ {id} : rows'[other] = rows[other]
      BY <1>0, <3>3 DEF TypeOK
    <3> QED
      BY <3>4, <3>5, <3>6, CreatesNewWritten
  <2>3. ASSUME NEW row \in Rows, Overwritten(h, row)
        PROVE  CreatesNew'
    <3> DEFINE id == handlers[h].id
    <3>1. /\ id \in Ids /\ handlers[h] \in HandlerStates
          /\ handlers' = [ handlers EXCEPT ![h].stage = "auditing", ![h].row = row ]
          /\ rows' = [ rows EXCEPT ![id] = row ]
      BY <1>0, <2>3 DEF Overwritten, Write, Written, TypeOK
    <3>2. /\ handlers'[h].stage = "auditing" /\ handlers'[h].id = id
          /\ \A g \in Handlers \ {h} : handlers'[g] = handlers[g]
      BY <1>0, <3>1 DEF TypeOK, HandlerStates
    <3>3. \A g \in Handlers \ {h} :
            /\ handlers'[g].stage = handlers[g].stage /\ handlers'[g].op = handlers[g].op
            /\ handlers'[g].id = handlers[g].id
            /\ handlers[g].stage = "matched" /\ handlers[g].op = "create" => handlers[g].id # id
      BY <3>2 DEF CreatesNew, New
    <3>4. \A other \in Ids \ {id} : rows'[other] = rows[other]
      BY <1>0, <3>1 DEF TypeOK
    <3>5. id \in Ids
      BY <3>1
    <3> HIDE DEF id
    <3> QED
      BY <3>2, <3>3, <3>4, <3>5, CreatesNewWritten
  <2>4. CASE Moved(h)
    BY <2>4, CreatesNewKept DEF Moved
  <2>5. CASE Audit(h) \/ Settled(h) \/ Ends(h)
    <3>1. rows' = rows /\ handlers' = [ handlers EXCEPT ![h] = Idle ]
      BY <2>5 DEF Audit, Settled, UpdateSettings, Ends, RefusePlate, Abort
    <3>2. handlers'[h] = Idle /\ \A g \in Handlers \ {h} : handlers'[g] = handlers[g]
      BY <1>0, <3>1 DEF TypeOK
    <3>3. Idle.id = None /\ Idle.stage = "idle"
      BY DEF Idle
    <3> QED
      BY <3>1, <3>2, <3>3, CreatesNewKept
  <2> QED
    BY <1>0, <1>2, <2>1, <2>2, <2>3, <2>4, <2>5, StepForms
<1> QED
  BY <1>1, <1>2 DEF Next

LEMMA StrongInvariant == Spec => [](IInv /\ CreatesNew)
<1>1. Init => CreatesNew
  BY IdleIsState DEF Init, CreatesNew
<1>2. (IInv /\ CreatesNew) /\ [Next]_vars => (IInv /\ CreatesNew)'
  BY NextInvariant, CreatesNewNext
<1> QED
  BY InitInvariant, <1>1, <1>2, PTL DEF Spec
-----------------------------------------------------------------------------
(***************************************************************************)
(* What Bookings sees of a step.                                           *)
(***************************************************************************)

\* How a write may change what is seen of a row: another status of its table
\* and, of a driver, another rate; or the deletion.
Allowed(id, row) ==
  LET before == Seen(id) IN
  \/ /\ row.deleted = before.deleted
     /\ row.status = before.status \/ Belongs(id, row)
     /\ id \in Drivers => row.key \in Rates \cup {before.key}
  \/ /\ row.deleted /\ row.key = before.key
     /\ id \in Vehicles \cup Drivers => row.status = "INACTIVE"

LEMMA InsertedAllowed ==
  ASSUME NEW h \in Handlers, NEW id \in Ids, NEW row \in Rows, Inserted(h, id, row)
  PROVE  Allowed(id, row)
<1>1. Seen(id).deleted = FALSE
  BY DEF Inserted, Unused, Seen
<1> QED
  BY <1>1 DEF Inserted, Allowed, Rows

LEMMA OverwrittenAllowed ==
  ASSUME IInv, CreatesNew, NEW h \in Handlers, NEW row \in Rows, Overwritten(h, row)
  PROVE  Allowed(handlers[h].id, row)
<1> DEFINE id == handlers[h].id
<1>0. id \in Ids /\ Overwrites(h, row) /\ handlers[h].stage \in {"loaded", "matched"}
  BY DEF Overwritten
<1>1. CASE handlers[h].op = "create"
  <2>1. id \in Customers /\ id \notin InUse /\ ~ row.deleted
    BY <1>0, <1>1 DEF Overwrites, CreatesNew, New
  <2>2. Seen(id).deleted = FALSE
    BY <2>1 DEF Seen
  <2>3. id \notin Vehicles /\ id \notin Drivers
    BY <2>1, FleetAssumption
  <2> QED
    BY <2>1, <2>2, <2>3 DEF Allowed, Belongs, Rows
<1>2. CASE handlers[h].op # "create"
  <2>1. id \in InUse
    BY <1>0, <1>2 DEF IInv, RequestsSound, Sound
  <2>2. Seen(id) = rows[id] /\ rows[id] \in Rows
    BY <2>1, RowsTyped DEF Seen, IInv
  <2>3. CASE handlers[h].op = "update"
    BY <1>0, <2>2, <2>3 DEF Overwrites, Allowed
  <2>4. CASE handlers[h].op = "status"
    <3>1. row = [ rows[id] EXCEPT !.status = row.status ] /\ Belongs(id, row)
      BY <1>0, <2>4 DEF Overwrites
    <3>2. row.deleted = rows[id].deleted /\ row.key = rows[id].key
      BY <2>2, <3>1 DEF Rows
    <3> QED
      BY <2>2, <3>1, <3>2 DEF Allowed
  <2>5. CASE handlers[h].op = "delete"
    <3>1. /\ row = [ rows[id] EXCEPT !.status = row.status, !.deleted = TRUE ]
          /\ id \in Vehicles \cup Drivers /\ row.deleted => row.status = "INACTIVE"
      BY <1>0, <2>5 DEF Overwrites, Fits
    <3>2. row.deleted /\ row.key = rows[id].key
      BY <2>2, <3>1 DEF Rows
    <3> QED
      BY <2>2, <3>1, <3>2 DEF Allowed
  <2> QED
    BY <1>0, <1>2, <2>3, <2>4, <2>5 DEF Overwrites
<1> QED
  BY <1>1, <1>2

LEMMA SeenAfter ==
  ASSUME TypeOK, NEW id \in Ids, NEW row \in Rows, rows' = [ rows EXCEPT ![id] = row ]
  PROVE  Seen(id)' = row /\ \A other \in Ids \ {id} : Seen(other)' = Seen(other)
<1>1. rows'[id] = row /\ \A other \in Ids \ {id} : rows'[other] = rows[other]
  BY DEF TypeOK
<1>2. row # None
  BY FleetAssumption
<1> QED
  BY <1>1, <1>2 DEF Seen, InUse

\* What is seen of the settings when they are kept.
LEMMA SettingsKept ==
  ASSUME systemSettings' = systemSettings
  PROVE  SettingsSeen' = SettingsSeen
  BY DEF SettingsSeen, BookingSettings, Effective

\* A row of one table leaves what is seen of the others.
LEMMA OtherTables ==
  ASSUME TypeOK, NEW id \in Ids, NEW row \in Rows, rows' = [ rows EXCEPT ![id] = row ]
  PROVE  /\ id \notin Vehicles => VehiclesSeen' = VehiclesSeen
         /\ id \notin Drivers => DriversSeen' = DriversSeen
         /\ id \notin Customers => CustomersSeen' = CustomersSeen
<1>1. \A other \in Ids \ {id} : Seen(other)' = Seen(other)
  BY SeenAfter
<1>2. ASSUME id \notin Vehicles PROVE VehiclesSeen' = VehiclesSeen
  BY <1>1, <1>2 DEF VehiclesSeen, Ids
<1>3. ASSUME id \notin Drivers PROVE DriversSeen' = DriversSeen
  BY <1>1, <1>3 DEF DriversSeen, Ids
<1>4. ASSUME id \notin Customers PROVE CustomersSeen' = CustomersSeen
  BY <1>1, <1>4 DEF CustomersSeen, Ids
<1> QED
  BY <1>2, <1>3, <1>4
LEMMA VehicleStep ==
  ASSUME TypeOK, NEW id \in Vehicles, NEW row \in Rows, rows' = [ rows EXCEPT ![id] = row ],
         Allowed(id, row)
  PROVE  \/ VehiclesSeen' = VehiclesSeen
         \/ \E status \in VehicleStatuses :
              VehiclesSeen' = [ VehiclesSeen EXCEPT ![id].status = status ]
         \/ VehiclesSeen' =
              [ VehiclesSeen EXCEPT ![id] = [ status |-> "INACTIVE", deleted |-> TRUE ] ]
<1> DEFINE after == [ status |-> row.status, deleted |-> row.deleted ]
<1>1. id \in Ids
  BY DEF Ids
<1>2. Seen(id)' = row /\ \A other \in Vehicles \ {id} : Seen(other)' = Seen(other)
  BY <1>1, SeenAfter DEF Ids
<1>3. VehiclesSeen' = [ VehiclesSeen EXCEPT ![id] = after ]
  BY <1>2 DEF VehiclesSeen
<1>4. VehiclesSeen[id] = [ status |-> Seen(id).status, deleted |-> Seen(id).deleted ]
  BY DEF VehiclesSeen
<1>5. VehiclesSeen = [ VehiclesSeen EXCEPT ![id] = VehiclesSeen[id] ]
  BY DEF VehiclesSeen
<1>6. CASE row.deleted = Seen(id).deleted /\ row.status = Seen(id).status
  BY <1>3, <1>4, <1>5, <1>6
<1>7. CASE row.deleted = Seen(id).deleted /\ Belongs(id, row)
  <2>1. row.status \in VehicleStatuses
    BY <1>7 DEF Belongs
  <2>2. /\ VehiclesSeen[id] \in [ status : {Seen(id).status, row.status}, deleted : {row.deleted} ]
        /\ VehiclesSeen[id].deleted = row.deleted
    BY <1>4, <1>7
  <2>3. after = [ VehiclesSeen[id] EXCEPT !.status = row.status ]
    BY <2>2
  <2> QED
    BY <1>3, <2>1, <2>3
<1>8. CASE row.deleted /\ row.status = "INACTIVE"
  <2>1. row.deleted = TRUE
    BY <1>8 DEF Rows
  <2>2. row.status = "INACTIVE"
    BY <1>8
  <2> QED
    BY <1>3, <2>1, <2>2
<1> QED
  BY <1>6, <1>7, <1>8 DEF Allowed

LEMMA DriverStep ==
  ASSUME TypeOK, NEW id \in Drivers, NEW row \in Rows, rows' = [ rows EXCEPT ![id] = row ],
         Allowed(id, row)
  PROVE  \/ \E status \in DriverStatuses \cup {DriversSeen[id].status},
               rate \in Rates \cup {DriversSeen[id].rate} :
              DriversSeen' = [ DriversSeen EXCEPT ![id].status = status, ![id].rate = rate ]
         \/ DriversSeen' =
              [ DriversSeen EXCEPT ![id].status = "INACTIVE", ![id].deleted = TRUE ]
<1> DEFINE after == [ status |-> row.status, deleted |-> row.deleted, rate |-> row.key ]
<1>1. id \in Ids
  BY DEF Ids
<1>2. Seen(id)' = row /\ \A other \in Drivers \ {id} : Seen(other)' = Seen(other)
  BY <1>1, SeenAfter DEF Ids
<1>3. DriversSeen' = [ DriversSeen EXCEPT ![id] = after ]
  BY <1>2 DEF DriversSeen
<1>4. DriversSeen[id] =
        [ status |-> Seen(id).status, deleted |-> Seen(id).deleted, rate |-> Seen(id).key ]
  BY DEF DriversSeen
<1>5. id \in DOMAIN DriversSeen
  BY DEF DriversSeen
<1>6. CASE /\ row.deleted = Seen(id).deleted
           /\ row.status = Seen(id).status \/ Belongs(id, row)
           /\ row.key \in Rates \cup {Seen(id).key}
  <2>1. /\ row.status \in DriverStatuses \cup {DriversSeen[id].status}
        /\ row.key \in Rates \cup {DriversSeen[id].rate}
    BY <1>4, <1>6 DEF Belongs
  <2>2. /\ DriversSeen[id] \in
             [ status : {Seen(id).status, row.status}, deleted : {row.deleted},
               rate : {Seen(id).key, row.key} ]
        /\ DriversSeen[id].deleted = row.deleted
    BY <1>4, <1>6
  <2>3. after = [ DriversSeen[id] EXCEPT !.status = row.status, !.rate = row.key ]
    <3> DEFINE moved == [ DriversSeen[id] EXCEPT !.status = row.status ]
    <3>1. /\ moved \in [ status : {Seen(id).status, row.status}, deleted : {row.deleted},
                          rate : {Seen(id).key, row.key} ]
          /\ moved.status = row.status /\ moved.deleted = row.deleted
      BY <2>2
    <3> HIDE DEF moved
    <3>2. after = [ moved EXCEPT !.rate = row.key ]
      BY <3>1
    <3> QED
      BY <3>2 DEF moved
  <2>4. DriversSeen' = [ DriversSeen EXCEPT ![id].status = row.status, ![id].rate = row.key ]
    BY <1>3, <1>5, <2>3
  <2> QED
    BY <2>1, <2>4
<1>7. CASE row.deleted /\ row.key = Seen(id).key /\ row.status = "INACTIVE"
  \* A name for TRUE: the provers take the value of a field for a formula otherwise.
  <2> DEFINE yes == TRUE
  <2>1. row.deleted = yes
    BY <1>7 DEF Rows
  <2> HIDE DEF yes
  <2>0. row.status = "INACTIVE" /\ row.key = Seen(id).key
    BY <1>7
  <2>2. /\ DriversSeen[id] \in
             [ status : {Seen(id).status, "INACTIVE"}, deleted : {Seen(id).deleted, yes},
               rate : {row.key} ]
        /\ DriversSeen[id].rate = row.key
    BY <1>4, <2>0
  <2>3. after = [ DriversSeen[id] EXCEPT !.status = "INACTIVE", !.deleted = yes ]
    <3> DEFINE moved == [ DriversSeen[id] EXCEPT !.status = "INACTIVE" ]
    <3>1. /\ moved \in [ status : {Seen(id).status, "INACTIVE"},
                          deleted : {Seen(id).deleted, yes}, rate : {row.key} ]
          /\ moved.status = "INACTIVE" /\ moved.rate = row.key
      BY <2>2
    <3> HIDE DEF moved
    <3>2. after = [ moved EXCEPT !.deleted = yes ]
      BY <2>0, <2>1, <3>1
    <3> QED
      BY <3>2 DEF moved
  <2> QED
    BY <1>3, <1>5, <2>3 DEF yes
<1> QED
  BY <1>6, <1>7 DEF Allowed

LEMMA CustomerStep ==
  ASSUME TypeOK, NEW id \in Customers, NEW row \in Rows, rows' = [ rows EXCEPT ![id] = row ],
         Allowed(id, row)
  PROVE  \/ CustomersSeen' = CustomersSeen
         \/ id \in CustomersSeen /\ CustomersSeen' = CustomersSeen \ {id}
<1>1. id \in Ids
  BY DEF Ids
<1>2. Seen(id)' = row /\ \A other \in Customers \ {id} : Seen(other)' = Seen(other)
  BY <1>1, SeenAfter DEF Ids
<1>3. row.deleted = Seen(id).deleted \/ row.deleted
  BY DEF Allowed
<1> QED
  BY <1>2, <1>3 DEF CustomersSeen

LEMMA RowStep ==
  ASSUME TypeOK, NEW id \in Ids, NEW row \in Rows, rows' = [ rows EXCEPT ![id] = row ],
         Allowed(id, row), systemSettings' = systemSettings
  PROVE  [Environment!Next]_Environment!vars
<1> USE SettingsKept
<1>1. CASE id \in Vehicles
  <2>1. DriversSeen' = DriversSeen /\ CustomersSeen' = CustomersSeen
    BY <1>1, OtherTables, FleetAssumption
  <2> QED
    BY <1>1, <2>1, VehicleStep
    DEF Environment!Next, Environment!FleetStep, Environment!WriteVehicle, Environment!vars,
        Environment!tables, Environment!fleet
<1>2. CASE id \in Drivers
  <2>1. VehiclesSeen' = VehiclesSeen /\ CustomersSeen' = CustomersSeen
    BY <1>2, OtherTables, FleetAssumption
  <2> QED
    BY <1>2, <2>1, DriverStep
    DEF Environment!Next, Environment!FleetStep, Environment!WriteDriver, Environment!vars,
        Environment!tables, Environment!fleet
<1>3. CASE id \in Customers
  <2>1. VehiclesSeen' = VehiclesSeen /\ DriversSeen' = DriversSeen
    BY <1>3, OtherTables, FleetAssumption
  <2> QED
    BY <1>3, <2>1, CustomerStep
    DEF Environment!Next, Environment!FleetStep, Environment!DeleteCustomer, Environment!vars,
        Environment!tables, Environment!fleet
<1> QED
  BY <1>1, <1>2, <1>3 DEF Ids
LEMMA EnvironmentStep ==
  ASSUME IInv, CreatesNew, [Next]_vars
  PROVE  [Environment!Next]_Environment!vars
<1>0. TypeOK /\ RequestsSound
  BY DEF IInv
<1>1. ASSUME rows' = rows, systemSettings' = systemSettings
      PROVE  UNCHANGED Environment!vars
  <2>1. \A id : Seen(id)' = Seen(id)
    BY <1>1 DEF Seen, InUse
  <2> QED
    BY <1>1, <2>1, SettingsKept
    DEF VehiclesSeen, DriversSeen, CustomersSeen, Environment!vars, Environment!tables,
        Environment!fleet
<1>2. ASSUME NEW h \in Handlers, HandlerStep(h), ~ UNCHANGED << rows, systemSettings >>
      PROVE  [Environment!Next]_Environment!vars
  <2>1. CASE Settled(h)
    <3>1. PICK input \in SettingsInputs : systemSettings' = Stored(input)
      BY <2>1 DEF Settled, UpdateSettings
    <3>2. Effective(systemSettings)' = input
      BY <3>1, StoredIsEffective, FleetAssumption DEF Effective
    <3>3. SettingsSeen' = BookingSettings(input)
      BY <3>2 DEF SettingsSeen
    <3>4. rows' = rows
      BY <2>1 DEF Settled, UpdateSettings
    <3>5. VehiclesSeen' = VehiclesSeen /\ DriversSeen' = DriversSeen
          /\ CustomersSeen' = CustomersSeen
      BY <3>4 DEF VehiclesSeen, DriversSeen, CustomersSeen, Seen, InUse
    <3> QED
      BY <3>3, <3>5
      DEF Environment!Next, Environment!FleetStep, Environment!UpdateSettings,
          Environment!tables
  <2>2. ASSUME NEW id \in Ids, NEW row \in Rows, Inserted(h, id, row)
        PROVE  [Environment!Next]_Environment!vars
    <3>1. rows' = [ rows EXCEPT ![id] = row ] /\ systemSettings' = systemSettings
      BY <2>2 DEF Inserted, Insert, Written
    <3> QED
      BY <1>0, <2>2, <3>1, InsertedAllowed, RowStep
  <2>3. ASSUME NEW row \in Rows, Overwritten(h, row)
        PROVE  [Environment!Next]_Environment!vars
    <3> DEFINE id == handlers[h].id
    <3>1. /\ id \in Ids /\ rows' = [ rows EXCEPT ![id] = row ]
          /\ systemSettings' = systemSettings
      BY <2>3 DEF Overwritten, Write, Written
    <3>2. Allowed(id, row)
      BY <2>3, OverwrittenAllowed
    <3> HIDE DEF id
    <3> QED
      BY <1>0, <3>1, <3>2, RowStep
  <2>4. ~ (\E s \in HandlerStates : Received(h, s)) /\ ~ Moved(h) /\ ~ Audit(h) /\ ~ Ends(h)
        /\ ~ UNCHANGED vars
    BY <1>2 DEF Received, Moved, Audit, Ends, RefusePlate, Abort, vars
  <2> QED
    BY <1>0, <1>2, <2>1, <2>2, <2>3, <2>4, StepForms
<1> QED
  BY <1>1, <1>2 DEF Next, vars

\* Vehicles, drivers, customers and settings, as their services change them one
\* statement at a time, never do what Bookings does not allow its environment.
THEOREM FleetIsBookingEnvironment == Spec => ImplementsBookingEnvironment
<1>1. Init => Environment!Init
  <2> SUFFICES ASSUME Init PROVE Environment!Init
    OBVIOUS
  <2>1. ASSUME NEW id \in Ids
        PROVE  Seen(id).key = 0 /\ Seen(id).status = "AVAILABLE" /\ Seen(id).deleted = FALSE
    BY DEF Init, Seen, InUse
  <2>2. /\ VehiclesSeen = [ v \in Vehicles |-> [ status |-> "AVAILABLE", deleted |-> FALSE ] ]
        /\ DriversSeen =
             [ d \in Drivers |-> [ status |-> "AVAILABLE", deleted |-> FALSE, rate |-> 0 ] ]
    BY <2>1 DEF VehiclesSeen, DriversSeen, Ids
  <2>4. CustomersSeen = Customers
    BY <2>1 DEF CustomersSeen, Ids
  <2>3. SettingsSeen = BookingSettings(Effective(SeededSettings))
    BY DEF Init, SettingsSeen
  <2> QED
    BY <2>2, <2>3, <2>4 DEF Environment!Init
<1>2. IInv /\ CreatesNew /\ [Next]_vars => [Environment!Next]_Environment!vars
  BY EnvironmentStep
<1> QED
  BY <1>1, <1>2, StrongInvariant, PTL
  DEF Spec, ImplementsBookingEnvironment, Environment!Spec

=============================================================================
