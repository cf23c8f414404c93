------------------------------ MODULE Accounts ------------------------------
(***************************************************************************)
(* User accounts and refresh-token sessions: auth.service.ts behind        *)
(* auth.middleware.ts, and user.service.ts for administrators.  Handlers   *)
(* run at once, one database call a step:                                  *)
(*                                                                         *)
(*   login, refresh       idle -> loaded -> idle                           *)
(*   logout               idle -> authorized -> auditing -> idle           *)
(*   changePassword, resetPassword                                         *)
(*                        idle -> authorized -> loaded -> changing -> idle *)
(*   createUser           idle -> authorized -> auditing -> idle           *)
(*   updateUser, activate idle -> authorized -> loaded -> auditing -> idle *)
(*   deactivate           ... -> counting -> loaded -> revoking ->         *)
(*                            auditing -> idle                             *)
(*                                                                         *)
(* The $transaction calls run at READ COMMITTED.  That of a new password   *)
(* takes two steps: its second statement, updateMany, sees the sessions of *)
(* its start and may wait there for the row of a refresh, which commits a  *)
(* successor meanwhile.  The transactions of a login and of a refresh take *)
(* one step each; a login also updates the user's row and so waits for a   *)
(* new password that has written it.                                       *)
(* Names, e-mail addresses and lastLoginAt are left out; a sign-in by an   *)
(* address is a sign-in by its user, the address being unique.             *)
(***************************************************************************)
EXTENDS Integers, FiniteSets

CONSTANTS
  UserIds, Tokens, Passwords, Handlers,
  None,                 \* no row, no id, nobody
  Operations,           \* the requests clients send
  InitialUsers,         \* the User table at the start
  Failures              \* whether a request may fail half way

VARIABLES
  users,                \* User table
  sessions,             \* AuthSession table, by refresh token
  signedAccess,         \* users for whom an unexpired access token exists
  authLog,              \* the newest AUTH_ or password entry
  told,                 \* what the USER_ entries last say of each user
  handlers,
  leftIn,               \* history: users whose deactivation failed half way
  misreported           \* history: users whose USER_ entries crossed or were lost

vars == << users, sessions, signedAccess, authLog, told, handlers, leftIn, misreported >>

-----------------------------------------------------------------------------

UserRoles == {"ADMIN", "STAFF"}
SelfOperations == {"logout", "changePassword"}
PasswordOperations == {"changePassword", "resetPassword"}
RowOperations == {"updateUser", "activate", "deactivate", "resetPassword"}
AdminOperations == RowOperations \cup {"createUser"}
AllOperations == {"login", "refresh"} \cup SelfOperations \cup AdminOperations

UserRows == [ role : UserRoles, active : BOOLEAN, password : Passwords ]
Claims == [ role : UserRoles \cup {None}, active : BOOLEAN \cup {None} ]

\* login (the first token of the sign-in), password (the one it verified) and
\* overtaken (see Overtake) are history: the code keeps none of them.
Sessions ==
  [ user : UserIds, revoked : BOOLEAN, expired : BOOLEAN, replacedBy : Tokens \cup {None},
    login : Tokens, password : Passwords, overtaken : BOOLEAN ]

AuthEvents ==
  {"AUTH_LOGIN_SUCCEEDED", "AUTH_LOGIN_FAILED", "AUTH_REFRESH_SUCCEEDED", "AUTH_REFRESH_FAILED",
   "AUTH_LOGOUT", "AUTH_PASSWORD_CHANGED", "AUTH_PASSWORD_CHANGE_FAILED", "USER_PASSWORD_RESET"}
AuthEntries == [ user : UserIds, event : AuthEvents ]

HandlerStates ==
  [ stage : {"idle", "authorized", "counting", "loaded", "changing", "revoking", "auditing"},
    op : AllOperations \cup {None},
    actor : UserIds \cup {None},      \* req.user
    subject : UserIds \cup {None},    \* the user the request is about
    token : Tokens \cup {None},       \* the refresh token it presented
    row : UserRows \cup {None},       \* the user row it read or wrote
    seen : SUBSET Tokens,             \* the sessions a new password is to end
    overtaken : BOOLEAN ]             \* history, see Overtake

ASSUME AccountsAssumption ==
  /\ None \notin UserIds \cup Tokens \cup UserRows \cup Sessions \cup AuthEntries
  /\ None \notin BOOLEAN
  /\ None \notin UserRoles \cup AllOperations
  /\ None \notin [ token : Tokens, login : Tokens ]
  /\ Operations \subseteq AllOperations
  /\ InitialUsers \in [ UserIds -> UserRows \cup {None} ]
  /\ Failures \in BOOLEAN

-----------------------------------------------------------------------------

Registered == { u \in UserIds : users[u] # None }
Issued == { t \in Tokens : sessions[t] # None }
Unrevoked == { t \in Issued : ~ sessions[t].revoked }
Live == { t \in Unrevoked : ~ sessions[t].expired }
SessionsOf(u) == { t \in Issued : sessions[t].user = u }
ActiveAdmins == { u \in Registered : users[u].active /\ users[u].role = "ADMIN" }

ClaimsOf(row) == [ role |-> row.role, active |-> row.active ]
Untold == [ role |-> None, active |-> None ]

Idle == [ stage |-> "idle", op |-> None, actor |-> None, subject |-> None,
          token |-> None, row |-> None, seen |-> {}, overtaken |-> FALSE ]
Become(h, state) == handlers' = [ handlers EXCEPT ![h] = state ]
Advance(h, stage) == handlers' = [ handlers EXCEPT ![h].stage = stage ]
Finish(h) == Become(h, Idle)
At(h, stage, op) == handlers[h].stage = stage /\ handlers[h].op = op

LogAuth(u, event) == authLog' = [ user |-> u, event |-> event ]

RevokeTokens(revoked) ==
  sessions' = [ t \in Tokens |->
                  IF t \in revoked \cap Issued THEN [ sessions[t] EXCEPT !.revoked = TRUE ]
                  ELSE sessions[t] ]

NewSession(u, login, password, overtaken) ==
  [ user |-> u, revoked |-> FALSE, expired |-> FALSE, replacedBy |-> None,
    login |-> login, password |-> password, overtaken |-> overtaken ]

\* The row lock that user.update takes inside the transaction of a new password.
Locked(u) == \E g \in Handlers : handlers[g].stage = "changing" /\ handlers[g].subject = u

\* A new password or a deactivation of u is between its write and the end of
\* u's sessions.
Ending(u) ==
  \E g \in Handlers : handlers[g].stage \in {"changing", "revoking"} /\ handlers[g].subject = u

SignsIn(h) == handlers[h].stage = "loaded" /\ handlers[h].op \in {"login", "refresh"}
Pending(u) == { h \in Handlers : SignsIn(h) /\ handlers[h].subject = u }

\* h becomes state and starts to end the sessions of u.  The logins and the
\* refreshes of u under way are overtaken, as are those that begin before it is
\* done, the sessions they open and the successors of these.
Overtake(h, u, state) ==
  handlers' = [ g \in Handlers |->
                  CASE g = h -> state
                    [] g \in Pending(u) \ {h} -> [ handlers[g] EXCEPT !.overtaken = TRUE ]
                    [] OTHER -> handlers[g] ]

\* The row of u is written and its USER_ entry still to come.
Writes(g, u) ==
  /\ handlers[g].stage \in {"revoking", "auditing"} /\ handlers[g].op # "logout"
  /\ handlers[g].subject = u

\* A write while another's entry is to come may cross it; one that is alone and
\* whose entry tells the whole row sets the entries right.
Report(u, whole) ==
  misreported' =
    IF \E g \in Handlers : Writes(g, u) THEN misreported \cup {u}
    ELSE IF whole THEN misreported \ {u}
    ELSE misreported

-----------------------------------------------------------------------------
(***************************************************************************)
(* Requests that carry an access token: requireAuthentication reads the    *)
(* user, requireAdmin looks at the role it read.  A refusal (401, 403)     *)
(* changes nothing.                                                        *)
(***************************************************************************)
Authorize(h, op, u) ==
  /\ handlers[h] = Idle
  /\ op \in Operations \cap (SelfOperations \cup AdminOperations)
  /\ u \in signedAccess
  /\ u \in Registered /\ users[u].active
  /\ op \in AdminOperations => users[u].role = "ADMIN"
  /\ Become(h, [ Idle EXCEPT !.stage = "authorized", !.op = op, !.actor = u ])
  /\ UNCHANGED << users, sessions, signedAccess, authLog, told, leftIn, misreported >>

(***************************************************************************)
(* login                                                                   *)
(***************************************************************************)
FailLogin(u, password) ==
  /\ "login" \in Operations
  /\ u \in Registered
  /\ ~ users[u].active \/ users[u].password # password
  /\ LogAuth(u, "AUTH_LOGIN_FAILED")
  /\ UNCHANGED << users, sessions, signedAccess, told, handlers, leftIn, misreported >>

BeginLogin(h, u) ==
  /\ handlers[h] = Idle
  /\ "login" \in Operations
  /\ u \in Registered /\ users[u].active
  /\ Issued # Tokens
  /\ Become(h, [ Idle EXCEPT !.stage = "loaded", !.op = "login", !.subject = u,
                             !.row = users[u], !.overtaken = Ending(u) ])
  /\ UNCHANGED << users, sessions, signedAccess, authLog, told, leftIn, misreported >>

FinishLogin(h, t) ==
  /\ At(h, "loaded", "login")
  /\ ~ Locked(handlers[h].subject)
  /\ t \notin Issued
  /\ LET u == handlers[h].subject IN
       /\ sessions' = [ sessions EXCEPT ![t] =
                          NewSession(u, t, handlers[h].row.password, handlers[h].overtaken) ]
       /\ signedAccess' = signedAccess \cup {u}
       /\ LogAuth(u, "AUTH_LOGIN_SUCCEEDED")
  /\ Finish(h)
  /\ UNCHANGED << users, told, leftIn, misreported >>

(***************************************************************************)
(* refreshSession: the session is read outside the transaction that        *)
(* revokes it and creates its successor.                                   *)
(***************************************************************************)

\* Mutant: revokedAt is not looked at.
UsableThoughRevoked(t) ==
  /\ t \in Issued /\ ~ sessions[t].expired
  /\ users[sessions[t].user].active

Usable(t) == t \in Live /\ users[sessions[t].user].active

FailRefresh(t) ==
  /\ "refresh" \in Operations
  /\ t \in Issued /\ ~ Usable(t)
  /\ LogAuth(sessions[t].user, "AUTH_REFRESH_FAILED")
  /\ UNCHANGED << users, sessions, signedAccess, told, handlers, leftIn, misreported >>

BeginRefresh(h, t) ==
  /\ handlers[h] = Idle
  /\ "refresh" \in Operations
  /\ Usable(t)
  /\ Issued # Tokens
  /\ Become(h, [ Idle EXCEPT !.stage = "loaded", !.op = "refresh", !.token = t,
                             !.subject = sessions[t].user,
                             !.overtaken = Ending(sessions[t].user) ])
  /\ UNCHANGED << users, sessions, signedAccess, authLog, told, leftIn, misreported >>

Successor(h, t) ==
  NewSession(sessions[t].user, sessions[t].login, sessions[t].password,
             sessions[t].overtaken \/ handlers[h].overtaken)

\* Mutant: the old session is linked to its successor but not revoked.
FinishRefreshUnrevoked(h, next) ==
  /\ At(h, "loaded", "refresh")
  /\ next \notin Issued
  /\ LET t == handlers[h].token IN
       /\ sessions' = [ sessions EXCEPT ![t].replacedBy = next, ![next] = Successor(h, t) ]
       /\ signedAccess' = signedAccess \cup {handlers[h].subject}
       /\ LogAuth(handlers[h].subject, "AUTH_REFRESH_SUCCEEDED")
  /\ Finish(h)
  /\ UNCHANGED << users, told, leftIn, misreported >>

FinishRefresh(h, next) ==
  /\ At(h, "loaded", "refresh")
  /\ next \notin Issued
  /\ LET t == handlers[h].token IN
       /\ sessions' = [ sessions EXCEPT ![t].revoked = TRUE, ![t].replacedBy = next,
                                        ![next] = Successor(h, t) ]
       /\ signedAccess' = signedAccess \cup {handlers[h].subject}
       /\ LogAuth(handlers[h].subject, "AUTH_REFRESH_SUCCEEDED")
  /\ Finish(h)
  /\ UNCHANGED << users, told, leftIn, misreported >>

(***************************************************************************)
(* logout: the refresh cookie may be missing, already rotated or that of   *)
(* another sign-in; the audit entry is a statement of its own.  The access *)
(* token stays valid until it expires.                                     *)
(***************************************************************************)
Logout(h, t) ==
  /\ At(h, "authorized", "logout")
  /\ t \in Issued \cup {None}
  /\ RevokeTokens({t})
  /\ Become(h, [ handlers[h] EXCEPT !.stage = "auditing", !.token = t ])
  /\ UNCHANGED << users, signedAccess, authLog, told, leftIn, misreported >>

AuditLogout(h) ==
  /\ At(h, "auditing", "logout")
  /\ LogAuth(handlers[h].actor, "AUTH_LOGOUT")
  /\ Finish(h)
  /\ UNCHANGED << users, sessions, signedAccess, told, leftIn, misreported >>

-----------------------------------------------------------------------------
(***************************************************************************)
(* changePassword and resetPassword: one transaction stores the password,  *)
(* ends the sessions it sees and logs.                                     *)
(***************************************************************************)

\* The current password is checked against a row read before the transaction.
CheckOwnPassword(h, password) ==
  /\ At(h, "authorized", "changePassword")
  /\ LET u == handlers[h].actor IN
       /\ users[u].active
       /\ \/ /\ users[u].password = password
             /\ Become(h, [ handlers[h] EXCEPT !.stage = "loaded", !.subject = u ])
             /\ UNCHANGED authLog
          \/ /\ users[u].password # password
             /\ LogAuth(u, "AUTH_PASSWORD_CHANGE_FAILED")
             /\ Finish(h)
  /\ UNCHANGED << users, sessions, signedAccess, told, leftIn, misreported >>

\* Mutant: the sessions are left alone.
StorePasswordOnly(h, password) ==
  /\ handlers[h].stage = "loaded" /\ handlers[h].op \in PasswordOperations
  /\ LET u == handlers[h].subject IN
       /\ ~ Locked(u)
       /\ Overtake(h, u, [ handlers[h] EXCEPT !.stage = "changing",
                                              !.row = [ users[u] EXCEPT !.password = password ] ])
  /\ UNCHANGED << users, sessions, signedAccess, authLog, told, leftIn, misreported >>

\* user.update, and the sessions updateMany finds when it starts.
StorePassword(h, password) ==
  /\ handlers[h].stage = "loaded" /\ handlers[h].op \in PasswordOperations
  /\ LET u == handlers[h].subject IN
       /\ ~ Locked(u)
       /\ Overtake(h, u, [ handlers[h] EXCEPT !.stage = "changing",
                                              !.row = [ users[u] EXCEPT !.password = password ],
                                              !.seen = Unrevoked \cap SessionsOf(u) ])
  /\ UNCHANGED << users, sessions, signedAccess, authLog, told, leftIn, misreported >>

\* The rows it waited for may have been revoked, and replaced, by then.
CommitPassword(h) ==
  /\ handlers[h].stage = "changing"
  /\ users' = [ users EXCEPT ![handlers[h].subject].password = handlers[h].row.password ]
  /\ RevokeTokens(handlers[h].seen)
  /\ LogAuth(handlers[h].subject, IF handlers[h].op = "resetPassword" THEN "USER_PASSWORD_RESET"
                                  ELSE "AUTH_PASSWORD_CHANGED")
  /\ Finish(h)
  /\ UNCHANGED << signedAccess, told, leftIn, misreported >>

-----------------------------------------------------------------------------
(***************************************************************************)
(* createUser, updateUser and updateUserStatus: the write, the end of the  *)
(* sessions and the audit entry are separate statements.                   *)
(***************************************************************************)
CreateUser(h, u, row) ==
  /\ At(h, "authorized", "createUser")
  /\ u \notin Registered
  /\ users' = [ users EXCEPT ![u] = row ]
  /\ Become(h, [ handlers[h] EXCEPT !.stage = "auditing", !.subject = u, !.row = row ])
  /\ Report(u, TRUE)
  /\ UNCHANGED << sessions, signedAccess, authLog, told, leftIn >>

\* getUser, and for a deactivation the check that comes before it.
LoadUser(h, u) ==
  /\ handlers[h].stage = "authorized" /\ handlers[h].op \in RowOperations
  /\ u \in Registered
  /\ handlers[h].op = "deactivate" => u # handlers[h].actor
  /\ LET stage == IF handlers[h].op = "deactivate" /\ u \in ActiveAdmins
                    THEN "counting" ELSE "loaded"
     IN  Become(h, [ handlers[h] EXCEPT !.stage = stage, !.subject = u ])
  /\ UNCHANGED << users, sessions, signedAccess, authLog, told, leftIn, misreported >>

CountAdmins(h) ==
  /\ handlers[h].stage = "counting"
  /\ Cardinality(ActiveAdmins) > 1
  /\ Advance(h, "loaded")
  /\ UNCHANGED << users, sessions, signedAccess, authLog, told, leftIn, misreported >>

\* Mutant: an omitted role is written instead of being left as it is.
WriteAbsentRole(h, role) ==
  /\ At(h, "loaded", "updateUser")
  /\ LET u == handlers[h].subject IN users' = [ users EXCEPT ![u].role = None ]
  /\ Advance(h, "auditing")
  /\ UNCHANGED << sessions, signedAccess, authLog, told, leftIn, misreported >>

\* A body without a role keeps the one the row has.
WriteRole(h, role) ==
  /\ At(h, "loaded", "updateUser")
  /\ LET u == handlers[h].subject
         row == [ users[u] EXCEPT !.role = role ]
     IN  /\ ~ Locked(u)
         /\ users' = [ users EXCEPT ![u] = row ]
         /\ Become(h, [ handlers[h] EXCEPT !.stage = "auditing", !.row = row ])
         /\ Report(u, TRUE)
  /\ UNCHANGED << sessions, signedAccess, authLog, told, leftIn >>

\* Mutant: the sessions of a deactivated user are left alone.
WriteActiveOnly(h) ==
  /\ handlers[h].stage = "loaded" /\ handlers[h].op \in {"activate", "deactivate"}
  /\ LET u == handlers[h].subject
         row == [ users[u] EXCEPT !.active = (handlers[h].op = "activate") ]
     IN  /\ ~ Locked(u)
         /\ users' = [ users EXCEPT ![u] = row ]
         /\ Become(h, [ handlers[h] EXCEPT !.stage = "auditing", !.row = row ])
         /\ Report(u, FALSE)
  /\ UNCHANGED << sessions, signedAccess, authLog, told, leftIn >>

WriteActive(h) ==
  /\ handlers[h].stage = "loaded" /\ handlers[h].op \in {"activate", "deactivate"}
  /\ LET u == handlers[h].subject
         row == [ users[u] EXCEPT !.active = (handlers[h].op = "activate") ]
     IN  /\ ~ Locked(u)
         /\ users' = [ users EXCEPT ![u] = row ]
         /\ IF row.active
              THEN Become(h, [ handlers[h] EXCEPT !.stage = "auditing", !.row = row ])
              ELSE Overtake(h, u, [ handlers[h] EXCEPT !.stage = "revoking", !.row = row ])
         /\ Report(u, FALSE)
  /\ UNCHANGED << sessions, signedAccess, authLog, told, leftIn >>

RevokeSessions(h) ==
  /\ handlers[h].stage = "revoking"
  /\ RevokeTokens(SessionsOf(handlers[h].subject))
  /\ leftIn' = leftIn \ {handlers[h].subject}
  /\ Advance(h, "auditing")
  /\ UNCHANGED << users, signedAccess, authLog, told, misreported >>

\* Mutant: the entry of a status change repeats the old value.
AuditOldStatus(h) ==
  /\ handlers[h].stage = "auditing" /\ handlers[h].op # "logout"
  /\ LET u == handlers[h].subject
         new == ClaimsOf(handlers[h].row)
     IN  told' = [ told EXCEPT ![u] =
                     IF handlers[h].op \in {"activate", "deactivate"} THEN @ ELSE new ]
  /\ Finish(h)
  /\ UNCHANGED << users, sessions, signedAccess, authLog, leftIn, misreported >>

\* newValues: the whole row for USER_CREATED and USER_UPDATED, isActive alone
\* for USER_ACTIVATED and USER_DEACTIVATED.
AuditUser(h) ==
  /\ handlers[h].stage = "auditing" /\ handlers[h].op # "logout"
  /\ LET u == handlers[h].subject
         new == ClaimsOf(handlers[h].row)
     IN  told' = [ told EXCEPT ![u] =
                     IF handlers[h].op \in {"activate", "deactivate"}
                       THEN [ @ EXCEPT !.active = new.active ] ELSE new ]
  /\ Finish(h)
  /\ UNCHANGED << users, sessions, signedAccess, authLog, leftIn, misreported >>

-----------------------------------------------------------------------------

(***************************************************************************)
(* Answers that change nothing: an id with no user (404), the caller's own *)
(* deactivation (400), a count of one admin (400), an e-mail address in    *)
(* use (409), and a caller deactivated since it was authorized, whom       *)
(* findFirstOrThrow does not find (500).                                   *)
(***************************************************************************)
Refuse(h) ==
  /\ \/ handlers[h].stage = "authorized" /\ handlers[h].op \in AdminOperations
     \/ handlers[h].stage = "counting" /\ Cardinality(ActiveAdmins) <= 1
     \/ At(h, "loaded", "updateUser")
     \/ At(h, "authorized", "changePassword") /\ ~ users[handlers[h].actor].active
  /\ Finish(h)
  /\ UNCHANGED << users, sessions, signedAccess, authLog, told, leftIn, misreported >>

(***************************************************************************)
(* A statement fails or the process stops: the open transaction is rolled  *)
(* back, the statements before it stay.                                    *)
(***************************************************************************)
Abort(h) ==
  /\ Failures
  /\ handlers[h] # Idle
  /\ Finish(h)
  /\ leftIn' = leftIn \cup { u \in UserIds : handlers[h].stage = "revoking"
                                                /\ handlers[h].subject = u }
  /\ misreported' = misreported \cup { u \in UserIds : Writes(h, u) }
  /\ UNCHANGED << users, sessions, signedAccess, authLog, told >>

\* Time passes: REFRESH_TOKEN_TTL_DAYS and ACCESS_TOKEN_TTL_MINUTES.
ExpireSession(t) ==
  /\ t \in Issued /\ ~ sessions[t].expired
  /\ sessions' = [ sessions EXCEPT ![t].expired = TRUE ]
  /\ UNCHANGED << users, signedAccess, authLog, told, handlers, leftIn, misreported >>

ExpireAccess(u) ==
  /\ u \in signedAccess
  /\ signedAccess' = signedAccess \ {u}
  /\ UNCHANGED << users, sessions, authLog, told, handlers, leftIn, misreported >>

Init ==
  /\ users = InitialUsers
  /\ sessions = [ t \in Tokens |-> None ]
  /\ signedAccess = {}
  /\ authLog = None
  /\ told = [ u \in UserIds |->
                IF InitialUsers[u] = None THEN Untold ELSE ClaimsOf(InitialUsers[u]) ]
  /\ handlers = [ h \in Handlers |-> Idle ]
  /\ leftIn = {}
  /\ misreported = {}

SessionStep(h) ==
  \/ \E u \in UserIds : BeginLogin(h, u)
  \/ \E t \in Tokens : FinishLogin(h, t) \/ BeginRefresh(h, t) \/ FinishRefresh(h, t)
  \/ \E t \in Tokens \cup {None} : Logout(h, t)
  \/ AuditLogout(h)
  \/ \E password \in Passwords :
       CheckOwnPassword(h, password) \/ StorePassword(h, password)
  \/ CommitPassword(h)

AdminStep(h) ==
  \/ \E u \in UserIds, row \in UserRows : CreateUser(h, u, row)
  \/ \E u \in UserIds : LoadUser(h, u)
  \/ CountAdmins(h)
  \/ \E role \in UserRoles : WriteRole(h, role)
  \/ WriteActive(h)
  \/ RevokeSessions(h)
  \/ AuditUser(h)

Next ==
  \/ \E h \in Handlers :
       \/ \E op \in AllOperations, u \in UserIds : Authorize(h, op, u)
       \/ SessionStep(h)
       \/ AdminStep(h)
       \/ Refuse(h)
       \/ Abort(h)
  \/ \E u \in UserIds, password \in Passwords : FailLogin(u, password)
  \/ \E t \in Tokens : FailRefresh(t) \/ ExpireSession(t)
  \/ \E u \in UserIds : ExpireAccess(u)

Spec == Init /\ [][Next]_vars

-----------------------------------------------------------------------------
(***************************************************************************)
(* Properties                                                              *)
(***************************************************************************)

TypeOK ==
  /\ users \in [ UserIds -> UserRows \cup {None} ]
  /\ sessions \in [ Tokens -> Sessions \cup {None} ]
  /\ signedAccess \in SUBSET UserIds
  /\ authLog \in AuthEntries \cup {None}
  /\ told \in [ UserIds -> Claims ]
  /\ handlers \in [ Handlers -> HandlerStates ]
  /\ leftIn \in SUBSET UserIds
  /\ misreported \in SUBSET UserIds

KeepsOwner(t) ==
  /\ sessions[t].login \in SessionsOf(sessions[t].user)
  /\ sessions[t].replacedBy # None =>
       /\ sessions[t].revoked
       /\ sessions[t].replacedBy \in SessionsOf(sessions[t].user)
       /\ sessions[sessions[t].replacedBy].login = sessions[t].login

\* A session and its successor belong to one user and one sign-in, and a
\* session that has a successor is revoked, however many refreshes, sign-outs
\* and password changes run together (refreshSession, auth.service.ts 149-205).
RotationKeepsOwner == \A t \in Issued : KeepsOwner(t)

SignedOut(u) == Live \cap SessionsOf(u) = {} /\ Pending(u) = {}

\* A user with no live session and no sign-in or refresh on its way gets one
\* back only by a login that finds the account active: no refresh, retry or
\* administrator's request revives a session (auth.service.ts 61, 155-161).
SignedOutStaysOut ==
  [][ \A u \in UserIds :
        SignedOut(u) /\ ~ SignedOut(u)' =>
          /\ u \in Registered /\ users[u].active
          /\ \E h \in Pending(u)' : handlers'[h].op = "login" ]_vars

\* However requests meet and fail, an unrevoked session was opened with the
\* password its user has now, or by a login or a refresh under way while the
\* password changed: one that read the old password or the old session, or whose
\* successor the change did not see (auth.service.ts 85, 149, 281-305,
\* user.service.ts 188-212).
SessionsKnowPassword ==
  \A t \in Unrevoked :
    sessions[t].overtaken \/ sessions[t].password = users[sessions[t].user].password

\* A deactivated user has an unrevoked session only while the deactivation is
\* still to end them, after it failed before doing so, or from a login or a
\* refresh it overtook (user.service.ts 151-165).
DeactivatedSignedOut ==
  \A u \in Registered \ leftIn :
    ~ users[u].active
    /\ (\A h \in Handlers : ~ (handlers[h].stage = "revoking" /\ handlers[h].subject = u))
      => \A t \in Unrevoked \cap SessionsOf(u) : sessions[t].overtaken

\* The audit entries say what the user's row says (docs/requirements.md:99,
\* "Important actions must be recorded with actor, action, entity, ...") once
\* those of every write are there, unless one was lost to a failure or made
\* while another was to come, until the next whole row is told
\* (user.service.ts 102-121, 151-175).
AuditTellsUsers ==
  \A u \in Registered \ misreported :
    (\A h \in Handlers : ~ Writes(h, u)) => told[u] = ClaimsOf(users[u])

\* docs/postman-manual-testing.md:324, "The last active Admin cannot be
\* deactivated."  Two administrators who deactivate each other at once break it
\* (user.service.ts 137-151).
LastAdminStays ==
  [][ \A u \in ActiveAdmins :
        users'[u].role = "ADMIN" /\ ~ users'[u].active => ActiveAdmins' # {} ]_vars

\* The sessions implement the abstract sign-ins, however many requests meet or
\* fail: docs/security.md:7, "Refresh tokens rotate".
SignInsView ==
  INSTANCE SignIns WITH
    Requests <- Handlers,
    valid <- [ l \in Tokens |-> { t \in Unrevoked : sessions[t].login = l } ],
    spent <- Issued,
    presented <- [ h \in Handlers |->
                     IF At(h, "loaded", "refresh")
                       THEN [ token |-> handlers[h].token,
                              login |-> sessions[handlers[h].token].login ]
                       ELSE None ]
ImplementsSignIns == SignInsView!Spec

=============================================================================
