----------------------------- MODULE MCBookings -----------------------------
(***************************************************************************)
(* Small instances of Bookings for TLC.  Each family of inputs below is    *)
(* one question; the .cfg files choose among them.                         *)
(***************************************************************************)
EXTENDS Bookings, TLC

CONSTANTS v1, v2, d1, d2, c1, absent

Symmetric == Permutations(BookingIds) \cup Permutations(Handlers)

Create == [ voucher |-> 1, customer |-> c1, vehicle |-> v1, driver |-> d1,
            startAt |-> 0, endAt |-> 2, tripType |-> "CITY", status |-> "CONFIRMED",
            stay |-> absent, notes |-> {} ]

Update == [ voucher |-> absent, customer |-> absent, vehicle |-> absent, driver |-> absent,
            startAt |-> absent, endAt |-> absent, tripType |-> absent, stay |-> absent,
            notes |-> absent ]

Night == [ details |-> TRUE, nights |-> 1, rate |-> absent, total |-> absent, reason |-> FALSE ]

OneSetting == { [ pre |-> 1, post |-> 1, rate |-> 2 ] }

NoReason == {absent}

(***************************************************************************)
(* overlap: two vehicles, two drivers, trips that touch and trips that     *)
(* overlap, moved in time and between vehicles, cancelled and reopened.    *)
(***************************************************************************)
OverlapCreates ==
  { [ Create EXCEPT !.voucher = voucher, !.vehicle = pair[1], !.driver = pair[2],
                    !.startAt = trip[1], !.endAt = trip[2], !.status = status ] :
      voucher \in Vouchers, pair \in { <<v1, d1>>, <<v1, d2>> },
      trip \in { <<0, 2>>, <<1, 3>> }, status \in {"CONFIRMED"} }

OverlapUpdates ==
  { [ Update EXCEPT !.vehicle = v2 ], [ Update EXCEPT !.driver = d1 ],
    [ Update EXCEPT !.startAt = 2, !.endAt = 3 ], [ Update EXCEPT !.startAt = 1 ],
    [ Update EXCEPT !.tripType = "OVERNIGHT", !.stay = Night ] }

(***************************************************************************)
(* stale_reads: two requests on one booking, each of any operation, with   *)
(* the fleet and the settings changing in between: what one handler read   *)
(* before its transaction is not what the other left there.                *)
(***************************************************************************)
WithReason == {absent, "reason"}

NightOverTotal == [ Night EXCEPT !.total = 5, !.reason = TRUE ]
NightUnreasoned == [ Night EXCEPT !.rate = 3 ]
NightReversed == [ Night EXCEPT !.nights = -1 ]
NightUndetailed == [ Night EXCEPT !.details = FALSE ]

StaleCreates ==
  { [ Create EXCEPT !.status = status ] : status \in {"DRAFT", "COMPLETED", "CANCELLED"} }
    \cup { [ Create EXCEPT !.tripType = "OVERNIGHT", !.stay = Night ],
           [ Create EXCEPT !.tripType = "OUTSIDE_CITY", !.stay = NightReversed ] }

StaleUpdates ==
  { [ Update EXCEPT !.tripType = "OVERNIGHT", !.stay = NightOverTotal ],
    [ Update EXCEPT !.tripType = "CITY" ], [ Update EXCEPT !.stay = NightUnreasoned ],
    [ Update EXCEPT !.vehicle = v2 ], [ Update EXCEPT !.driver = d2 ],
    [ Update EXCEPT !.stay = NightUndetailed ] }

(***************************************************************************)
(* races: two handlers on one booking, each reading before the other       *)
(* commits.                                                                *)
(***************************************************************************)
RaceCreates ==
  { [ Create EXCEPT !.tripType = tripType, !.stay = IF tripType = "CITY" THEN absent ELSE Night ] :
      tripType \in {"CITY", "OVERNIGHT"} }

RaceUpdates ==
  { [ Update EXCEPT !.tripType = "OVERNIGHT", !.stay = Night ],
    [ Update EXCEPT !.tripType = "CITY" ],
    [ Update EXCEPT !.endAt = 3, !.stay = NightOverTotal ],
    [ Update EXCEPT !.vehicle = v2 ], [ Update EXCEPT !.notes = {"note"} ] }

=============================================================================
