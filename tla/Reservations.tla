---------------------------- MODULE Reservations ----------------------------
(***************************************************************************)
(* What the booking service promises about its resources: a calendar of    *)
(* holds.  A booking holds one vehicle and one driver over one half-open   *)
(* interval, or holds nothing.  A hold is placed or moved only where no    *)
(* other booking holds the same vehicle or the same driver, and is given   *)
(* back at any time.  Which request does it, and how often requests fail,  *)
(* is not the calendar's business.                                         *)
(***************************************************************************)
EXTENDS Integers

CONSTANTS BookingIds, Vehicles, Drivers, Nothing

VARIABLE held

Holds == [ vehicle : Vehicles, driver : Drivers, from : Int, to : Int ]

Clash(h1, h2) ==
  /\ h1.vehicle = h2.vehicle \/ h1.driver = h2.driver
  /\ h1.from < h2.to /\ h2.from < h1.to

Init == held = [ b \in BookingIds |-> Nothing ]

Place(b, hold) ==
  /\ \A c \in BookingIds \ {b} : held[c] # Nothing => ~ Clash(hold, held[c])
  /\ held' = [ held EXCEPT ![b] = hold ]

GiveBack(b) == held' = [ held EXCEPT ![b] = Nothing ]

\* The interval placed on b is not empty; TLC reads it from held'.
Next ==
  \E b \in BookingIds :
    \/ GiveBack(b)
    \/ /\ held'[b] \in Holds
       /\ held'[b].from < held'[b].to
       /\ Place(b, held'[b])

Spec == Init /\ [][Next]_held

\* No vehicle and no driver is held twice at one moment.
NoClash ==
  \A b, c \in BookingIds :
    b # c /\ held[b] # Nothing /\ held[c] # Nothing => ~ Clash(held[b], held[c])

=============================================================================
