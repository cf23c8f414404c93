------------------------------- MODULE MCFleet -------------------------------
(***************************************************************************)
(* Small instances of Fleet for TLC.                                       *)
(***************************************************************************)
EXTENDS Fleet, TLC

CONSTANT none

Symmetric ==
  Permutations(Handlers) \cup Permutations(Vehicles) \cup Permutations(Plates)
    \cup Permutations(Customers)

TwoZones == {"SAR, Asia/Riyadh", "USD, UTC"}

TwoInputs ==
  { [ rate |-> 0, pre |-> 1, post |-> 2, zone |-> "SAR, Asia/Riyadh" ],
    [ rate |-> 250, pre |-> 2, post |-> 1, zone |-> "USD, UTC" ] }

\* Settings stored before the rate had its present name.
OldSeed ==
  [ rate |-> none, legacyRate |-> 0, pre |-> 12, post |-> 12, zone |-> "SAR, Asia/Riyadh" ]

=============================================================================
