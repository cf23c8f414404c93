----------------------------- MODULE MCAccounts -----------------------------
(***************************************************************************)
(* Small instances of Accounts for TLC.                                    *)
(***************************************************************************)
EXTENDS Accounts, TLC

CONSTANTS u1, u2

Symmetric == Permutations(Tokens) \cup Permutations(Handlers)

Row(role) == [ role |-> role, active |-> TRUE, password |-> "first" ]

\* A new office: one administrator, and a user yet to be created.
OneAdmin == u1 :> Row("ADMIN") @@ u2 :> None

\* An office with two administrators.
TwoAdmins == u1 :> Row("ADMIN") @@ u2 :> Row("ADMIN")

\* The logs and the history guard nothing; a view leaves out what the invariants of
\* its run do not look at (of authLog, TypeOK asks only its type).
WithoutLogs == << users, sessions, signedAccess, handlers >>
WithoutAuthLog == << users, sessions, signedAccess, told, handlers, leftIn, misreported >>

=============================================================================
