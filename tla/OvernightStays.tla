--------------------------- MODULE OvernightStays ---------------------------
(***************************************************************************)
(* The overnight part of a booking request: what writeOvernightStay of     *)
(* booking.service.ts accepts and what it stores.  A stay request has      *)
(*   details  the accommodation name and both dates are given,             *)
(*   nights   check-out minus check-in in days (0 or less when reversed),  *)
(*   rate     driverDailyRate, or Absent,                                  *)
(*   total    totalDriverCost, or Absent,                                  *)
(*   reason   an overrideReason is given.                                  *)
(* Money is a natural number of the smallest unit.                         *)
(***************************************************************************)
EXTENDS Integers

CONSTANT Absent   \* a field the request leaves out

StayRequests == [ details : BOOLEAN, nights : Int, rate : Nat \cup {Absent},
                  total : Nat \cup {Absent}, reason : BOOLEAN ]

Stays == [ nights : Nat \ {0}, rate : Nat, total : Nat ]

\* input.field ?? fallback
Given(field, fallback) == IF field = Absent THEN fallback ELSE field

WantsOverride(stay) == stay.rate # Absent \/ stay.total # Absent

\* Mutant: the Admin check only looks at the daily rate.
StayAnswerRateOnly(tripType, stay, role) ==
  IF stay = Absent THEN "200"
  ELSE IF stay.rate # Absent /\ role # "ADMIN" THEN "403" ELSE "200"

\* Mutant: an overnight trip without stay details is let through.
StayAnswerNoDetails(tripType, stay, role) ==
  IF stay # Absent /\ (tripType = "CITY" \/ stay.nights <= 0) THEN "400" ELSE "200"

(***************************************************************************)
(* The checks of writeOvernightStay in their order: "200" to go on, or the  *)
(* HTTP status of the AppError that rolls the transaction back.            *)
(***************************************************************************)
StayAnswer(tripType, stay, role) ==
  IF stay = Absent
  THEN IF tripType = "OVERNIGHT" THEN "400" ELSE "200"
  ELSE IF tripType = "CITY" \/ ~ stay.details \/ stay.nights <= 0 THEN "400"
  ELSE IF WantsOverride(stay) /\ role # "ADMIN" THEN "403"
  ELSE IF WantsOverride(stay) /\ ~ stay.reason THEN "400"
  ELSE "200"

\* The driver's own rate when it is positive, the configured default else.
DefaultRate(driverRate, settings) == IF driverRate > 0 THEN driverRate ELSE settings.rate

(***************************************************************************)
(* What writeOvernightStay leaves in the OvernightStay table for the       *)
(* booking, whatever was there before: nothing, or the one new row.        *)
(***************************************************************************)
StaysAfterWrite(tripType, stay, driverRate, settings) ==
  IF tripType = "CITY" \/ stay = Absent
  THEN {}
  ELSE LET rate == Given(stay.rate, DefaultRate(driverRate, settings)) IN
       { [ nights |-> stay.nights, rate |-> rate,
           total  |-> Given(stay.total, rate * stay.nights) ] }

=============================================================================
