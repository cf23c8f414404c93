---------------------------- MODULE Availability ----------------------------
(***************************************************************************)
(* The availability window of a booking and the conflicts it meets, from   *)
(* availability.service.ts.  Instants are integers (hours), and rows is a  *)
(* set of booking rows with the columns the service filters on.            *)
(***************************************************************************)
EXTENDS Integers

TripTypes == {"CITY", "OUTSIDE_CITY", "OVERNIGHT"}

\* hasHalfOpenOverlap: [newStart, newEnd) meets [existingStart, existingEnd).
HasHalfOpenOverlap(newStart, newEnd, existingStart, existingEnd) ==
  newStart < existingEnd /\ newEnd > existingStart

(***************************************************************************)
(* resolveAvailabilityWindow: an overnight trip also holds its vehicle and *)
(* its driver for the configured buffers.                                  *)
(***************************************************************************)
ResolveWindow(tripType, startAt, endAt, settings) ==
  [ from |-> IF tripType = "OVERNIGHT" THEN startAt - settings.pre ELSE startAt,
    to   |-> IF tripType = "OVERNIGHT" THEN endAt + settings.post ELSE endAt ]

\* blockingStatusWhere: every status but CANCELLED holds its resources.
Blocking(row) == row.status # "CANCELLED"

\* conflictWhere, with the booking itself already left out of rows.
OverlappingRows(window, rows) ==
  { row \in rows : /\ Blocking(row)
                   /\ HasHalfOpenOverlap(window.from, window.to, row.from, row.to) }

(***************************************************************************)
(* findVehicleConflicts and findDriverConflicts: the rows for which        *)
(* checkBookingConflicts reports hasConflict.                              *)
(***************************************************************************)
Conflicts(vehicle, driver, window, rows) ==
  { row \in OverlappingRows(window, rows) : row.vehicle = vehicle \/ row.driver = driver }

=============================================================================
