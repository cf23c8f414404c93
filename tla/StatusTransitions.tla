------------------------- MODULE StatusTransitions -------------------------
(***************************************************************************)
(* Who may move a booking from one status to another, and who may edit it. *)
(* Translated from booking-status-transition.service.ts.                   *)
(***************************************************************************)

BookingStatuses == {"DRAFT", "CONFIRMED", "IN_PROGRESS", "COMPLETED", "CANCELLED"}

Roles == {"ADMIN", "STAFF"}

staffTransitions ==
  [ DRAFT       |-> {"CONFIRMED", "CANCELLED"},
    CONFIRMED   |-> {"IN_PROGRESS", "CANCELLED"},
    IN_PROGRESS |-> {"COMPLETED", "CANCELLED"},
    COMPLETED   |-> {},
    CANCELLED   |-> {} ]

adminTransitions ==
  [ DRAFT       |-> {"CONFIRMED", "CANCELLED"},
    CONFIRMED   |-> {"DRAFT", "IN_PROGRESS", "CANCELLED"},
    IN_PROGRESS |-> {"CONFIRMED", "COMPLETED", "CANCELLED"},
    COMPLETED   |-> {"CONFIRMED"},
    CANCELLED   |-> {"DRAFT", "CONFIRMED"} ]

\* Mutant: everyone gets the Admin's table.
TransitionAllowedToAll(from, to, role) == to \in adminTransitions[from] \cup {from}

(***************************************************************************)
(* assertBookingStatusTransition: repeating the status is always allowed,  *)
(* leaving CANCELLED for the road never is, the rest is the role's table.  *)
(***************************************************************************)
TransitionAllowed(from, to, role) ==
  \/ from = to
  \/ /\ ~ (from = "CANCELLED" /\ to \in {"IN_PROGRESS", "COMPLETED"})
     /\ \/ role = "ADMIN" /\ to \in adminTransitions[from]
        \/ role # "ADMIN" /\ to \in staffTransitions[from]

\* assertBookingEditableByRole.
EditableByRole(status, role) == status = "COMPLETED" => role = "ADMIN"

=============================================================================
