------------------------------- MODULE SignIns -------------------------------
(***************************************************************************)
(* What refresh-token rotation promises when requests may overlap, without *)
(* users, tables or failures.  A sign-in is named by its first token.  A   *)
(* refresh presents a token that is valid, takes it out of use and puts    *)
(* one new token of the same sign-in in its place, once.  So two tokens of *)
(* a sign-in are valid only after two refreshes presented the same one, or *)
(* one that had ended meanwhile; and a sign-in that has ended resumes only *)
(* by a refresh that was already under way.                                *)
(***************************************************************************)
CONSTANTS Tokens, Requests, None

VARIABLES
  valid,        \* the valid tokens of each sign-in
  spent,        \* every token ever issued
  presented     \* the token a refresh presented, and its sign-in

Init ==
  /\ valid = [ login \in Tokens |-> {} ]
  /\ spent = {}
  /\ presented = [ r \in Requests |-> None ]

SignIn(token) ==
  /\ token \notin spent
  /\ valid' = [ valid EXCEPT ![token] = {token} ]
  /\ spent' = spent \cup {token}
  /\ UNCHANGED presented

Present(r, login, token) ==
  /\ presented[r] = None
  /\ token \in valid[login]
  /\ presented' = [ presented EXCEPT ![r] = [ token |-> token, login |-> login ] ]
  /\ UNCHANGED << valid, spent >>

Rotate(r, token) ==
  /\ presented[r] # None
  /\ token \notin spent
  /\ valid' = [ valid EXCEPT ![presented[r].login] = (@ \ {presented[r].token}) \cup {token} ]
  /\ spent' = spent \cup {token}
  /\ presented' = [ presented EXCEPT ![r] = None ]

GiveUp(r) ==
  /\ presented' = [ presented EXCEPT ![r] = None ]
  /\ UNCHANGED << valid, spent >>

\* Signing out, a new password and a deactivation end tokens of any sign-ins.
End(tokens) ==
  /\ valid' = [ login \in Tokens |-> valid[login] \ tokens ]
  /\ UNCHANGED << spent, presented >>

Next ==
  \/ \E token \in Tokens : SignIn(token)
  \/ \E r \in Requests, login, token \in Tokens : Present(r, login, token)
  \/ \E r \in Requests, token \in Tokens : Rotate(r, token)
  \/ \E r \in Requests : GiveUp(r)
  \/ \E tokens \in SUBSET Tokens : End(tokens)

Spec == Init /\ [][Next]_<< valid, spent, presented >>

=============================================================================
