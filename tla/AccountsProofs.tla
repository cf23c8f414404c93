--------------------------- MODULE AccountsProofs ---------------------------
(***************************************************************************)
(* Theorems about Accounts for every set of users, tokens and handlers,    *)
(* with requests interleaving and failing freely.                          *)
(***************************************************************************)
EXTENDS Accounts, TLAPS

-----------------------------------------------------------------------------
(***************************************************************************)
(* The inductive invariant.  What a request in flight is about exists, and *)
(* a refresh still holds a session of the user it read: rows and sessions  *)
(* are never deleted and a session never changes hands.                    *)
(***************************************************************************)
AboutRow(s) ==
  \/ s.stage \in {"counting", "changing", "revoking"}
  \/ s.stage = "loaded" /\ s.op # "refresh"
  \/ s.stage = "auditing" /\ s.op # "logout"

HoldsRow(s) ==
  \/ s.stage = "loaded" /\ s.op = "login"
  \/ s.stage \in {"changing", "revoking"}
  \/ s.stage = "auditing" /\ s.op # "logout"

Known(s) ==
  /\ s.stage = "authorized" \/ (s.stage = "auditing" /\ s.op = "logout")
       => s.actor \in Registered
  /\ AboutRow(s) => s.subject \in Registered
  /\ s.stage \in {"counting", "revoking"} => s.op = "deactivate"
  /\ s.stage = "changing" => s.op \in PasswordOperations
  /\ HoldsRow(s) => s.row # None
  /\ s.stage = "loaded" /\ s.op = "refresh" =>
       s.subject \in UserIds /\ s.token \in SessionsOf(s.subject)

RequestsKnown == \A h \in Handlers : Known(handlers[h])

IInv == TypeOK /\ RotationKeepsOwner /\ RequestsKnown

-----------------------------------------------------------------------------
(***************************************************************************)
(* Lemmas about the helpers.                                               *)
(***************************************************************************)

\* Request g is where it was, but perhaps overtaken.
SameRequest(g) ==
  /\ handlers'[g].stage = handlers[g].stage /\ handlers'[g].op = handlers[g].op
  /\ handlers'[g].actor = handlers[g].actor /\ handlers'[g].subject = handlers[g].subject
  /\ handlers'[g].token = handlers[g].token /\ handlers'[g].row = handlers[g].row
  /\ handlers'[g].seen = handlers[g].seen

\* Request h goes on to state s and the others stay where they were.
Turns(h, s) ==
  /\ handlers' \in [ Handlers -> HandlerStates ]
  /\ handlers'[h] = s
  /\ \A g \in Handlers \ {h} : SameRequest(g)

LEMMA BecomeTurns ==
  ASSUME TypeOK, NEW h \in Handlers, NEW s \in HandlerStates, Become(h, s)
  PROVE  Turns(h, s) /\ \A g \in Handlers \ {h} : handlers'[g] = handlers[g]
<1>1. \A g \in Handlers : handlers'[g] = IF g = h THEN s ELSE handlers[g]
  BY DEF Become, TypeOK
<1>2. handlers' \in [ Handlers -> HandlerStates ]
  BY DEF Become, TypeOK
<1> QED
  BY <1>1, <1>2 DEF Turns, SameRequest

LEMMA OvertakeTurns ==
  ASSUME TypeOK, NEW h \in Handlers, NEW u, NEW s \in HandlerStates, Overtake(h, u, s)
  PROVE  /\ Turns(h, s)
         /\ \A g \in Handlers \ {h} :
              handlers'[g].overtaken = (handlers[g].overtaken \/ g \in Pending(u))
<1>1. ASSUME NEW g \in Handlers
      PROVE  /\ handlers'[g] \in HandlerStates
             /\ g = h => handlers'[g] = s
             /\ g # h => SameRequest(g)
             /\ g # h => handlers'[g].overtaken = (handlers[g].overtaken \/ g \in Pending(u))
  <2>0. handlers[g] \in HandlerStates
    BY DEF TypeOK
  <2>1. CASE g = h
    BY <2>1 DEF Overtake
  <2>2. CASE g # h /\ g \in Pending(u)
    <3>1. handlers'[g] = [ handlers[g] EXCEPT !.overtaken = TRUE ]
      BY <2>2 DEF Overtake
    <3> QED
      BY <2>0, <2>2, <3>1 DEF HandlerStates, SameRequest
  <2>3. CASE g # h /\ g \notin Pending(u)
    <3>1. handlers'[g] = handlers[g]
      BY <2>3 DEF Overtake
    <3>2. handlers'[g].overtaken = handlers[g].overtaken /\ handlers[g].overtaken \in BOOLEAN
      BY <2>0, <3>1 DEF HandlerStates
    <3> QED
      BY <2>0, <2>3, <3>1, <3>2 DEF SameRequest
  <2> QED
    BY <2>1, <2>2, <2>3
<1>2. handlers' \in [ Handlers -> HandlerStates ]
  BY <1>1 DEF Overtake
<1> QED
  BY <1>1, <1>2 DEF Turns

\* A request that moves on leaves every other request's user and session known,
\* as long as rows and sessions stay.
LEMMA OthersKnown ==
  ASSUME RequestsKnown, NEW h \in Handlers,
         \A g \in Handlers \ {h} : SameRequest(g),
         Known(handlers[h])',
         Registered \subseteq Registered',
         \A u \in UserIds : SessionsOf(u) \subseteq SessionsOf(u)'
  PROVE  RequestsKnown'
<1>1. ASSUME NEW g \in Handlers, g # h
      PROVE  Known(handlers[g])'
  <2>1. SameRequest(g)
    BY <1>1
  <2>2. Known(handlers[g])
    BY DEF RequestsKnown
  <2> QED
    BY <2>1, <2>2 DEF SameRequest, Known, AboutRow, HoldsRow
<1> QED
  BY <1>1 DEF RequestsKnown

\* Revoking tokens changes nothing of a session but revokedAt.
LEMMA RevokeFacts ==
  ASSUME TypeOK, RotationKeepsOwner, NEW S, RevokeTokens(S)
  PROVE  /\ sessions' \in [ Tokens -> Sessions \cup {None} ]
         /\ RotationKeepsOwner'
         /\ Issued' = Issued
         /\ \A t \in Issued : sessions'[t].user = sessions[t].user
         /\ Unrevoked' = Unrevoked \ S
         /\ Live' = Live \ S
<1>0. None \notin Sessions
  BY AccountsAssumption
<1>1. sessions' \in [ Tokens -> Sessions \cup {None} ]
  BY DEF RevokeTokens, TypeOK, Issued, Sessions
<1>2. ASSUME NEW t \in Tokens
      PROVE  /\ sessions[t] = None <=> sessions'[t] = None
             /\ sessions[t] # None =>
                  /\ sessions'[t].user = sessions[t].user
                  /\ sessions'[t].login = sessions[t].login
                  /\ sessions'[t].replacedBy = sessions[t].replacedBy
                  /\ sessions'[t].expired = sessions[t].expired
                  /\ sessions'[t].revoked = (sessions[t].revoked \/ t \in S)
  <2>1. CASE t \in S \cap Issued
    <3>1. sessions[t] \in Sessions /\ sessions'[t] = [ sessions[t] EXCEPT !.revoked = TRUE ]
      BY <2>1 DEF RevokeTokens, TypeOK, Issued
    <3> QED
      BY <1>0, <1>1, <2>1, <3>1 DEF Sessions
  <2>2. CASE t \notin S \cap Issued
    <3>1. sessions'[t] = sessions[t]
      BY <2>2 DEF RevokeTokens
    <3>2. sessions[t] # None => t \notin S /\ sessions[t].revoked \in BOOLEAN
      BY <2>2 DEF Issued, TypeOK, Sessions
    <3> QED
      BY <3>1, <3>2
  <2> QED
    BY <2>1, <2>2
<1>3. Issued' = Issued
  BY <1>2 DEF Issued
<1>4. Unrevoked' = Unrevoked \ S
  BY <1>2, <1>3 DEF Unrevoked, Issued
<1>5. Live' = Live \ S
  BY <1>2, <1>4 DEF Live, Unrevoked, Issued
<1>6. RotationKeepsOwner'
  <2> SUFFICES ASSUME NEW t \in Issued'
               PROVE  KeepsOwner(t)'
    BY DEF RotationKeepsOwner
  <2>1. t \in Issued /\ KeepsOwner(t)
    BY <1>3 DEF RotationKeepsOwner
  <2>2. /\ sessions'[t].user = sessions[t].user
        /\ sessions'[t].login = sessions[t].login
        /\ sessions'[t].replacedBy = sessions[t].replacedBy
        /\ sessions[t].revoked => sessions'[t].revoked
    BY <1>2, <2>1 DEF Issued
  <2>3. \A r \in SessionsOf(sessions[t].user) :
          /\ r \in Issued'
          /\ sessions'[r].user = sessions[t].user
          /\ sessions'[r].login = sessions[r].login
    BY <1>2, <1>3 DEF SessionsOf, Issued
  <2> QED
    BY <2>1, <2>2, <2>3 DEF KeepsOwner, SessionsOf
<1>7. \A t \in Issued : sessions'[t].user = sessions[t].user
  BY <1>2 DEF Issued
<1> QED
  BY <1>1, <1>3, <1>4, <1>5, <1>6, <1>7

\* With the sessions unchanged, their owners are.
LEMMA SameSessions ==
  ASSUME RotationKeepsOwner, UNCHANGED sessions
  PROVE  /\ RotationKeepsOwner'
         /\ \A u \in UserIds : SessionsOf(u) \subseteq SessionsOf(u)'
  BY DEF RotationKeepsOwner, KeepsOwner, SessionsOf, Issued

\* A state with other fields is a handler state when the fields are.
LEMMA IdleIsState == Idle \in HandlerStates
  BY DEF Idle, HandlerStates

-----------------------------------------------------------------------------
(***************************************************************************)
(* The invariant is inductive: steps that only move the request.           *)
(***************************************************************************)

Moves(h) ==
  /\ UNCHANGED << users, sessions, signedAccess >>
  /\ authLog' \in AuthEntries \cup {None}
  /\ told' \in [ UserIds -> Claims ]
  /\ leftIn' \in SUBSET UserIds /\ misreported' \in SUBSET UserIds
  /\ \E s \in HandlerStates : Turns(h, s)
  /\ Known(handlers[h])'

LEMMA MovesKeeps ==
  ASSUME IInv, NEW h \in Handlers, Moves(h)
  PROVE  IInv'
<1>1. handlers' \in [ Handlers -> HandlerStates ]
      /\ \A g \in Handlers \ {h} : SameRequest(g)
  BY DEF Moves, Turns
<1>2. TypeOK'
  BY <1>1 DEF Moves, IInv, TypeOK
<1>3. RotationKeepsOwner' /\ \A u \in UserIds : SessionsOf(u) \subseteq SessionsOf(u)'
  BY SameSessions DEF Moves, IInv
<1>4. Registered \subseteq Registered'
  BY DEF Moves, Registered
<1>5. RequestsKnown'
  BY <1>1, <1>3, <1>4, OthersKnown DEF Moves, IInv
<1> QED
  BY <1>2, <1>3, <1>5 DEF IInv

\* A request that ends knows nothing any more.
LEMMA FinishMoves ==
  ASSUME IInv, NEW h \in Handlers, Finish(h), UNCHANGED << users, sessions, signedAccess >>,
         authLog' \in AuthEntries \cup {None}, told' \in [ UserIds -> Claims ],
         leftIn' \in SUBSET UserIds, misreported' \in SUBSET UserIds
  PROVE  Moves(h)
<1>1. handlers'[h] = Idle
  BY DEF Finish, Become, IInv, TypeOK
<1>2. Known(handlers[h])'
  BY <1>1 DEF Known, AboutRow, HoldsRow, Idle
<1> QED
  BY <1>2, IdleIsState, BecomeTurns DEF Moves, Finish, IInv

LEMMA EntryType ==
  ASSUME NEW u \in UserIds, NEW event \in AuthEvents, LogAuth(u, event)
  PROVE  authLog' \in AuthEntries
  BY DEF LogAuth, AuthEntries

LEMMA MoveSteps ==
  ASSUME IInv, NEW h \in Handlers,
         \/ \E op \in AllOperations, u \in UserIds : Authorize(h, op, u)
         \/ \E u \in UserIds : BeginLogin(h, u) \/ LoadUser(h, u)
         \/ \E t \in Tokens : BeginRefresh(h, t)
         \/ \E password \in Passwords : CheckOwnPassword(h, password) \/ StorePassword(h, password)
         \/ CountAdmins(h) \/ AuditLogout(h) \/ AuditUser(h) \/ Refuse(h) \/ Abort(h)
  PROVE  IInv'
<1>0. /\ authLog \in AuthEntries \cup {None} /\ told \in [ UserIds -> Claims ]
      /\ handlers[h] \in HandlerStates /\ Known(handlers[h])
      /\ leftIn \in SUBSET UserIds /\ misreported \in SUBSET UserIds /\ TypeOK
  BY DEF IInv, TypeOK, RequestsKnown
<1> SUFFICES Moves(h)
  BY MovesKeeps
<1>a. ASSUME NEW s \in HandlerStates, Become(h, s), Known(handlers[h])',
             UNCHANGED << users, sessions, signedAccess, authLog, told, leftIn, misreported >>
      PROVE  Moves(h)
  BY <1>0, <1>a, BecomeTurns DEF Moves
<1>1. ASSUME NEW op \in AllOperations, NEW u \in UserIds, Authorize(h, op, u)
      PROVE  Moves(h)
  <2> DEFINE s == [ Idle EXCEPT !.stage = "authorized", !.op = op, !.actor = u ]
  <2>1. s \in HandlerStates /\ handlers'[h] = s
    BY <1>1, IdleIsState DEF Authorize, Become, IInv, TypeOK, Idle, HandlerStates
  <2>2. Known(handlers[h])'
    BY <1>1, <2>1 DEF Authorize, Known, AboutRow, HoldsRow, Idle, Registered
  <2> QED
    BY <1>1, <1>a, <2>1, <2>2 DEF Authorize
<1>2. ASSUME NEW u \in UserIds, BeginLogin(h, u)
      PROVE  Moves(h)
  <2> DEFINE s == [ Idle EXCEPT !.stage = "loaded", !.op = "login", !.subject = u,
                                !.row = users[u], !.overtaken = Ending(u) ]
  <2>0. Ending(u) \in BOOLEAN
    BY DEF Ending
  <2>1. s \in HandlerStates /\ handlers'[h] = s
    BY <1>2, <2>0, IdleIsState DEF BeginLogin, Become, IInv, TypeOK, Idle, HandlerStates, AllOperations
  <2>2. Known(handlers[h])'
    <3>1. /\ handlers'[h].stage = "loaded" /\ handlers'[h].op = "login"
          /\ handlers'[h].subject = u /\ handlers'[h].row = users[u]
      BY <2>1 DEF Idle
    <3>2. u \in Registered' /\ users[u] # None
      BY <1>2 DEF BeginLogin, Registered
    <3> QED
      BY <3>1, <3>2 DEF Known, AboutRow, HoldsRow
  <2>3. Become(h, s)
    BY <1>2 DEF BeginLogin
  <2>4. UNCHANGED << users, sessions, signedAccess, authLog, told, leftIn, misreported >>
    BY <1>2 DEF BeginLogin
  <2> HIDE DEF s
  <2> QED
    BY <1>a, <2>1, <2>2, <2>3, <2>4
<1>3. ASSUME NEW u \in UserIds, LoadUser(h, u)
      PROVE  Moves(h)
  <2> DEFINE stage == IF handlers[h].op = "deactivate" /\ u \in ActiveAdmins
                        THEN "counting" ELSE "loaded"
  <2> DEFINE s == [ handlers[h] EXCEPT !.stage = stage, !.subject = u ]
  <2>1. s \in HandlerStates /\ handlers'[h] = s
    BY <1>0, <1>3 DEF LoadUser, Become, IInv, TypeOK, HandlerStates
  <2>2. Known(handlers[h])'
    BY <1>0, <1>3, <2>1 DEF LoadUser, Known, AboutRow, HoldsRow, Registered, HandlerStates, RowOperations
  <2> QED
    BY <1>3, <1>a, <2>1, <2>2 DEF LoadUser
<1>4. ASSUME NEW t \in Tokens, BeginRefresh(h, t)
      PROVE  Moves(h)
  <2> DEFINE s == [ Idle EXCEPT !.stage = "loaded", !.op = "refresh", !.token = t,
                                !.subject = sessions[t].user,
                                !.overtaken = Ending(sessions[t].user) ]
  <2>a. Ending(sessions[t].user) \in BOOLEAN
    BY DEF Ending
  <2>0. t \in Issued /\ sessions[t].user \in UserIds /\ users[sessions[t].user].active
    BY <1>4 DEF BeginRefresh, Usable, Live, Unrevoked, Issued, IInv, TypeOK, Sessions
  <2>1. s \in HandlerStates /\ handlers'[h] = s
    BY <1>4, <2>0, <2>a, IdleIsState DEF BeginRefresh, Become, IInv, TypeOK, Idle, HandlerStates,
                                   AllOperations
  <2>2. Known(handlers[h])'
    <3>1. /\ handlers'[h].stage = "loaded" /\ handlers'[h].op = "refresh"
          /\ handlers'[h].subject = sessions[t].user /\ handlers'[h].token = t
      BY <2>1 DEF Idle
    <3>2. t \in Issued' /\ sessions'[t].user = sessions[t].user
      BY <1>4, <2>0 DEF BeginRefresh, Issued
    <3> QED
      BY <2>0, <3>1, <3>2 DEF Known, AboutRow, HoldsRow, SessionsOf
  <2>3. Become(h, s)
    BY <1>4 DEF BeginRefresh
  <2>4. UNCHANGED << users, sessions, signedAccess, authLog, told, leftIn, misreported >>
    BY <1>4 DEF BeginRefresh
  <2> HIDE DEF s
  <2> QED
    BY <1>a, <2>1, <2>2, <2>3, <2>4
<1>5. ASSUME NEW password \in Passwords, CheckOwnPassword(h, password)
      PROVE  Moves(h)
  <2> DEFINE u == handlers[h].actor
  <2> DEFINE s == [ handlers[h] EXCEPT !.stage = "loaded", !.subject = u ]
  <2>0. u \in Registered /\ u \in UserIds
    BY <1>0, <1>5 DEF CheckOwnPassword, At, Known, Registered
  <2>1. CASE users[u].password = password
    <3>1. Become(h, s) /\ UNCHANGED authLog
      BY <1>5, <2>1 DEF CheckOwnPassword
    <3>2. s \in HandlerStates /\ handlers'[h] = s
      BY <1>0, <2>0, <3>1 DEF Become, IInv, TypeOK, HandlerStates
    <3>3. Known(handlers[h])'
      BY <1>0, <1>5, <2>0, <3>2 DEF CheckOwnPassword, At, Known, AboutRow, HoldsRow, Registered, HandlerStates
    <3> HIDE DEF s
    <3> QED
      BY <1>5, <1>a, <3>1, <3>2, <3>3 DEF CheckOwnPassword
  <2>2. CASE users[u].password # password
    <3>1. LogAuth(u, "AUTH_PASSWORD_CHANGE_FAILED") /\ Finish(h)
      BY <1>5, <2>2 DEF CheckOwnPassword
    <3>2. authLog' \in AuthEntries
      BY <2>0, <3>1, EntryType DEF AuthEvents
    <3> QED
      BY <1>0, <1>5, <3>1, <3>2, FinishMoves DEF CheckOwnPassword
  <2> QED
    BY <2>1, <2>2
<1>6. ASSUME CountAdmins(h)
      PROVE  Moves(h)
  <2> DEFINE s == [ handlers[h] EXCEPT !.stage = "loaded" ]
  <2>1. Become(h, s)
    BY <1>6 DEF CountAdmins, Advance, Become
  <2>2. s \in HandlerStates /\ handlers'[h] = s
    BY <1>0, <2>1 DEF Become, IInv, TypeOK, HandlerStates
  <2>3. Known(handlers[h])'
    BY <1>0, <1>6, <2>2 DEF CountAdmins, Known, AboutRow, HoldsRow, Registered, HandlerStates
  <2> HIDE DEF s
  <2> QED
    BY <1>6, <1>a, <2>1, <2>2, <2>3 DEF CountAdmins
<1>7. ASSUME AuditLogout(h)
      PROVE  Moves(h)
  <2>1. handlers[h].actor \in UserIds
    BY <1>0, <1>7 DEF AuditLogout, At, Known, Registered
  <2>2. authLog' \in AuthEntries
    BY <1>7, <2>1, EntryType DEF AuditLogout, AuthEvents
  <2> QED
    BY <1>0, <1>7, <2>2, FinishMoves DEF AuditLogout
<1>8. ASSUME AuditUser(h)
      PROVE  Moves(h)
  <2> DEFINE u == handlers[h].subject
  <2> DEFINE new == ClaimsOf(handlers[h].row)
  <2>1. u \in UserIds /\ handlers[h].row \in UserRows
    BY <1>0, <1>8 DEF AuditUser, Known, AboutRow, HoldsRow, Registered, HandlerStates
  <2>2. new \in Claims
    BY <2>1 DEF ClaimsOf, Claims, UserRows
  <2>3. [ told[u] EXCEPT !.active = new.active ] \in Claims
    BY <1>0, <2>1, <2>2 DEF Claims
  <2>4. told' \in [ UserIds -> Claims ]
    BY <1>0, <1>8, <2>1, <2>2, <2>3 DEF AuditUser
  <2> QED
    BY <1>0, <1>8, <2>4, FinishMoves DEF AuditUser
<1>9. ASSUME Refuse(h) \/ Abort(h)
      PROVE  Moves(h)
  BY <1>0, <1>9, FinishMoves DEF Refuse, Abort
<1>10. ASSUME NEW password \in Passwords, StorePassword(h, password)
       PROVE  Moves(h)
  <2> DEFINE u == handlers[h].subject
  <2> DEFINE row == [ users[u] EXCEPT !.password = password ]
  <2> DEFINE s == [ handlers[h] EXCEPT !.stage = "changing", !.row = row,
                                       !.seen = Unrevoked \cap SessionsOf(u) ]
  <2>1. u \in Registered /\ row \in UserRows
    BY <1>0, <1>10 DEF StorePassword, PasswordOperations, Known, AboutRow, TypeOK, Registered, UserRows
  <2>2. Overtake(h, u, s) /\ handlers[h].op \in PasswordOperations
        /\ UNCHANGED << users, sessions, signedAccess, authLog, told, leftIn, misreported >>
    BY <1>10 DEF StorePassword
  <2> HIDE DEF row
  <2>3. s \in HandlerStates
    BY <1>0, <2>1 DEF HandlerStates, Unrevoked, Issued
  <2>4. /\ s.stage = "changing" /\ s.op = handlers[h].op /\ s.subject = u /\ s.row = row
    BY <1>0 DEF HandlerStates
  <2> HIDE DEF s
  <2>5. Turns(h, s)
    BY <1>0, <2>2, <2>3, OvertakeTurns
  <2>6. Known(handlers[h])'
    BY <2>1, <2>2, <2>4, <2>5, AccountsAssumption
       DEF Turns, Known, AboutRow, HoldsRow, Registered, PasswordOperations
  <2> QED
    BY <1>0, <2>2, <2>3, <2>5, <2>6 DEF Moves
<1> QED
  BY <1>1, <1>2, <1>3, <1>4, <1>5, <1>6, <1>7, <1>8, <1>9, <1>10

-----------------------------------------------------------------------------
(***************************************************************************)
(* The invariant is inductive: steps that write users or sessions.         *)
(***************************************************************************)

\* A fresh session of a known owner, first of its sign-in or successor of a
\* session that is revoked with it, leaves every owner in place.
LEMMA IssueKeeps ==
  ASSUME TypeOK, RotationKeepsOwner, NEW next \in Tokens \ Issued, NEW row \in Sessions,
         row.replacedBy = None, ~ row.revoked,
         \/ /\ row.login = next
            /\ sessions' = [ sessions EXCEPT ![next] = row ]
         \/ \E t \in Issued :
              /\ row.user = sessions[t].user /\ row.login = sessions[t].login
              /\ sessions' = [ sessions EXCEPT ![t].revoked = TRUE, ![t].replacedBy = next,
                                               ![next] = row ]
  PROVE  /\ sessions' \in [ Tokens -> Sessions \cup {None} ]
         /\ RotationKeepsOwner'
         /\ sessions'[next] = row
         /\ Issued' = Issued \cup {next}
         /\ \A t \in Issued : sessions'[t].user = sessions[t].user
         /\ Unrevoked' \subseteq Unrevoked \cup {next}
         /\ Live' \subseteq Live \cup {next}
<1>0. None \notin Sessions
  BY AccountsAssumption
<1>1. CASE /\ row.login = next
           /\ sessions' = [ sessions EXCEPT ![next] = row ]
  <2>1. sessions' \in [ Tokens -> Sessions \cup {None} ] /\ sessions'[next] = row
        /\ \A t \in Tokens \ {next} : sessions'[t] = sessions[t]
    BY <1>1 DEF TypeOK
  <2>2. Issued' = Issued \cup {next} /\ Issued \subseteq Tokens \ {next}
    BY <1>0, <2>1 DEF Issued
  <2>3. ASSUME NEW t \in Issued'
        PROVE  KeepsOwner(t)'
    <3>1. CASE t = next
      BY <1>1, <2>1, <2>2, <3>1 DEF KeepsOwner, SessionsOf
    <3>2. CASE t # next
      <4>1. t \in Issued /\ KeepsOwner(t) /\ sessions'[t] = sessions[t]
        BY <2>1, <2>2, <2>3, <3>2 DEF RotationKeepsOwner
      <4>2. \A r \in SessionsOf(sessions[t].user) :
              r \in Issued' /\ sessions'[r] = sessions[r] /\ sessions[r].user = sessions[t].user
        BY <2>1, <2>2 DEF SessionsOf
      <4> QED
        BY <4>1, <4>2 DEF KeepsOwner, SessionsOf
    <3> QED
      BY <3>1, <3>2
  <2>4. Unrevoked' \subseteq Unrevoked \cup {next} /\ Live' \subseteq Live \cup {next}
    BY <2>1, <2>2 DEF Unrevoked, Live
  <2> QED
    BY <2>1, <2>2, <2>3, <2>4 DEF RotationKeepsOwner
<1>2. ASSUME NEW t0 \in Issued,
             row.user = sessions[t0].user, row.login = sessions[t0].login,
             sessions' = [ sessions EXCEPT ![t0].revoked = TRUE, ![t0].replacedBy = next,
                                           ![next] = row ]
      PROVE  /\ sessions' \in [ Tokens -> Sessions \cup {None} ]
             /\ RotationKeepsOwner'
             /\ sessions'[next] = row
             /\ Issued' = Issued \cup {next}
             /\ \A t \in Issued : sessions'[t].user = sessions[t].user
             /\ Unrevoked' \subseteq Unrevoked \cup {next}
             /\ Live' \subseteq Live \cup {next}
  <2> DEFINE old == [ sessions[t0] EXCEPT !.revoked = TRUE, !.replacedBy = next ]
  <2>0. sessions[t0] \in Sessions /\ t0 # next /\ t0 \in Tokens
    BY DEF TypeOK, Issued
  <2>1. /\ old \in Sessions /\ old.user = sessions[t0].user /\ old.login = sessions[t0].login
        /\ old.revoked = TRUE /\ old.replacedBy = next
    BY <2>0 DEF Sessions
  <2>2. /\ sessions'[t0] = old /\ sessions'[next] = row
        /\ \A t \in Tokens \ {t0, next} : sessions'[t] = sessions[t]
        /\ DOMAIN sessions' = Tokens
    BY <1>2, <2>0 DEF TypeOK
  <2>3. sessions' \in [ Tokens -> Sessions \cup {None} ]
    <3>1. sessions' = [ t \in Tokens |-> sessions'[t] ]
      BY <1>2 DEF TypeOK
    <3>2. \A t \in Tokens : sessions'[t] \in Sessions \cup {None}
      BY <2>1, <2>2 DEF TypeOK
    <3> QED
      BY <3>1, <3>2
  <2> HIDE DEF old
  <2>4. Issued' = Issued \cup {next} /\ Issued \subseteq Tokens \ {next}
    BY <1>0, <2>0, <2>1, <2>2 DEF Issued
  <2>5. \A t \in Issued : /\ sessions'[t].user = sessions[t].user
                           /\ sessions'[t].login = sessions[t].login
    BY <2>1, <2>2, <2>4
  <2>6. ASSUME NEW t \in Issued'
        PROVE  KeepsOwner(t)'
    <3>0. ASSUME NEW q \in Issued
          PROVE  \A r \in SessionsOf(sessions[q].user) :
                   /\ r \in Issued' /\ sessions'[r].user = sessions[q].user
                   /\ sessions'[r].login = sessions[r].login
      BY <2>4, <2>5 DEF SessionsOf
    <3>1. CASE t = next
      <4>1. row.login \in SessionsOf(sessions[t0].user)
        BY <1>2 DEF RotationKeepsOwner, KeepsOwner
      <4>2. /\ row.login \in Issued'
            /\ sessions'[row.login].user = row.user
        BY <1>2, <3>0, <4>1
      <4> QED
        BY <2>2, <3>1, <4>2 DEF KeepsOwner, SessionsOf
    <3>2. CASE t = t0
      <4>1. KeepsOwner(t0)
        BY DEF RotationKeepsOwner
      <4> QED
        BY <1>2, <2>1, <2>2, <2>4, <2>5, <3>0, <3>2, <4>1 DEF KeepsOwner, SessionsOf
    <3>3. CASE t # next /\ t # t0
      <4>1. t \in Issued /\ KeepsOwner(t) /\ sessions'[t] = sessions[t]
        BY <2>2, <2>4, <2>6, <3>3 DEF RotationKeepsOwner
      <4> QED
        BY <3>0, <4>1 DEF KeepsOwner, SessionsOf
    <3> QED
      BY <3>1, <3>2, <3>3
  <2>7. Unrevoked' \subseteq Unrevoked \cup {next} /\ Live' \subseteq Live \cup {next}
    BY <2>1, <2>2, <2>4 DEF Unrevoked, Live
  <2> QED
    BY <2>2, <2>3, <2>4, <2>5, <2>6, <2>7 DEF RotationKeepsOwner
<1> QED
  BY <1>1, <1>2 DEF TypeOK, Issued

\* The parts of a step that writes rows, put together.
LEMMA WritesKeep ==
  ASSUME IInv, NEW h \in Handlers,
         \E s \in HandlerStates : Turns(h, s),
         Known(handlers[h])',
         users' \in [ UserIds -> UserRows \cup {None} ], Registered \subseteq Registered',
         sessions' \in [ Tokens -> Sessions \cup {None} ], RotationKeepsOwner',
         Issued \subseteq Issued', \A t \in Issued : sessions'[t].user = sessions[t].user,
         signedAccess' \in SUBSET UserIds, authLog' \in AuthEntries \cup {None},
         told' \in [ UserIds -> Claims ],
         leftIn' \in SUBSET UserIds, misreported' \in SUBSET UserIds
  PROVE  IInv'
<1>1. handlers' \in [ Handlers -> HandlerStates ]
      /\ \A g \in Handlers \ {h} : SameRequest(g)
  BY DEF Turns
<1>2. \A u \in UserIds : SessionsOf(u) \subseteq SessionsOf(u)'
  BY DEF SessionsOf
<1>3. RequestsKnown'
  BY <1>1, <1>2, OthersKnown DEF IInv
<1> QED
  BY <1>1, <1>3 DEF IInv, TypeOK

LEMMA FinishKnown ==
  ASSUME IInv, NEW h \in Handlers, Finish(h)
  PROVE  (\E s \in HandlerStates : Turns(h, s)) /\ Known(handlers[h])'
<1>1. handlers'[h] = Idle
  BY DEF Finish, Become, IInv, TypeOK
<1> QED
  BY <1>1, IdleIsState, BecomeTurns DEF IInv, Known, AboutRow, HoldsRow, Idle, Finish

LEMMA RowType ==
  ASSUME TypeOK, NEW u \in Registered, NEW row \in UserRows,
         users' = [ users EXCEPT ![u] = row ]
  PROVE  /\ users' \in [ UserIds -> UserRows \cup {None} ]
         /\ Registered \subseteq Registered'
  BY AccountsAssumption DEF Registered, TypeOK

\* A new session's fields.
LEMMA NewSessionFacts ==
  ASSUME NEW u \in UserIds, NEW login \in Tokens, NEW password \in Passwords,
         NEW overtaken \in BOOLEAN
  PROVE  LET row == NewSession(u, login, password, overtaken) IN
         /\ row \in Sessions /\ row.user = u /\ row.login = login
         /\ row.replacedBy = None /\ ~ row.revoked
         /\ row.password = password /\ row.overtaken = overtaken
  BY DEF NewSession, Sessions

LEMMA FinishLoginFacts ==
  ASSUME IInv, NEW h \in Handlers, NEW t \in Tokens, FinishLogin(h, t)
  PROVE  /\ IInv'
         /\ handlers[h].subject \in Registered
         /\ Live' \subseteq Live \cup {t} /\ t \notin Issued
         /\ sessions'[t].user = handlers[h].subject
         /\ \A r \in Issued : sessions'[r].user = sessions[r].user
<1> DEFINE u == handlers[h].subject
<1> DEFINE row == NewSession(u, t, handlers[h].row.password, handlers[h].overtaken)
<1>1. u \in Registered /\ u \in UserIds /\ handlers[h].row.password \in Passwords
      /\ handlers[h].overtaken \in BOOLEAN
  BY DEF FinishLogin, At, IInv, RequestsKnown, Known, AboutRow, HoldsRow, TypeOK, HandlerStates, UserRows,
         Registered
<1>2. /\ row \in Sessions /\ row.user = u /\ row.login = t
      /\ row.replacedBy = None /\ ~ row.revoked
  BY <1>1, NewSessionFacts
<1>3. sessions' = [ sessions EXCEPT ![t] = row ] /\ t \in Tokens \ Issued
  BY DEF FinishLogin
<1> HIDE DEF row
<1>4. /\ sessions' \in [ Tokens -> Sessions \cup {None} ] /\ RotationKeepsOwner'
      /\ sessions'[t] = row /\ Issued' = Issued \cup {t}
      /\ \A r \in Issued : sessions'[r].user = sessions[r].user
      /\ Live' \subseteq Live \cup {t}
  BY <1>2, <1>3, IssueKeeps DEF IInv
<1>5. authLog' \in AuthEntries /\ signedAccess' \in SUBSET UserIds
      /\ UNCHANGED << users, told, leftIn, misreported >> /\ Finish(h)
  BY <1>1, EntryType DEF FinishLogin, AuthEvents, IInv, TypeOK
<1>6. IInv'
  BY <1>4, <1>5, FinishKnown, WritesKeep DEF IInv, TypeOK, Registered
<1> QED
  BY <1>1, <1>2, <1>3, <1>4, <1>6

LEMMA FinishRefreshFacts ==
  ASSUME IInv, NEW h \in Handlers, NEW next \in Tokens, FinishRefresh(h, next)
  PROVE  /\ IInv'
         /\ handlers[h].subject \in UserIds
         /\ Live' \subseteq Live \cup {next} /\ next \notin Issued
         /\ sessions'[next].user = handlers[h].subject
         /\ \A r \in Issued : sessions'[r].user = sessions[r].user
<1> DEFINE t == handlers[h].token
<1> DEFINE row == Successor(h, t)
<1>1. /\ handlers[h].subject \in UserIds /\ t \in Issued
      /\ sessions[t].user = handlers[h].subject /\ sessions[t] \in Sessions
  BY DEF FinishRefresh, At, IInv, RequestsKnown, Known, SessionsOf, TypeOK, Issued
<1>2. /\ row \in Sessions /\ row.user = sessions[t].user /\ row.login = sessions[t].login
      /\ row.replacedBy = None /\ ~ row.revoked
  <2> DEFINE flag == sessions[t].overtaken \/ handlers[h].overtaken
  <2>1. flag \in BOOLEAN
    OBVIOUS
  <2>2. sessions[t].login \in Tokens /\ sessions[t].password \in Passwords
        /\ sessions[t].user \in UserIds
    BY <1>1 DEF Sessions
  <2>3. row = NewSession(sessions[t].user, sessions[t].login, sessions[t].password, flag)
    BY DEF Successor
  <2> HIDE DEF flag, row, t
  <2> QED
    BY <2>1, <2>2, <2>3, NewSessionFacts
<1>3. /\ sessions' = [ sessions EXCEPT ![t].revoked = TRUE, ![t].replacedBy = next,
                                        ![next] = row ]
      /\ next \in Tokens \ Issued
  BY DEF FinishRefresh
<1> HIDE DEF row, t
<1>4. /\ sessions' \in [ Tokens -> Sessions \cup {None} ] /\ RotationKeepsOwner'
      /\ sessions'[next] = row /\ Issued' = Issued \cup {next}
      /\ \A r \in Issued : sessions'[r].user = sessions[r].user
      /\ Live' \subseteq Live \cup {next}
  BY <1>1, <1>2, <1>3, IssueKeeps DEF IInv
<1>5. authLog' \in AuthEntries /\ signedAccess' \in SUBSET UserIds
      /\ UNCHANGED << users, told, leftIn, misreported >> /\ Finish(h)
  BY <1>1, EntryType DEF FinishRefresh, AuthEvents, IInv, TypeOK
<1>6. IInv'
  BY <1>4, <1>5, FinishKnown, WritesKeep DEF IInv, TypeOK, Registered
<1> QED
  BY <1>1, <1>2, <1>3, <1>4, <1>6

\* Steps that revoke sessions; CommitPassword writes the password with them.
LEMMA RevokeSteps ==
  ASSUME IInv, NEW h \in Handlers,
         \/ \E t \in Tokens \cup {None} : Logout(h, t)
         \/ CommitPassword(h) \/ RevokeSessions(h)
  PROVE  IInv' /\ Live' \subseteq Live /\ UNCHANGED Issued
         /\ \A t \in Issued : sessions'[t].user = sessions[t].user
<1>0. /\ TypeOK /\ RotationKeepsOwner /\ Known(handlers[h]) /\ handlers[h] \in HandlerStates
  BY DEF IInv, RequestsKnown, TypeOK
<1>1. ASSUME NEW t \in Tokens \cup {None}, Logout(h, t)
      PROVE  IInv' /\ Live' \subseteq Live /\ UNCHANGED Issued
             /\ \A r \in Issued : sessions'[r].user = sessions[r].user
  <2> DEFINE s == [ handlers[h] EXCEPT !.stage = "auditing", !.token = t ]
  <2>1. s \in HandlerStates /\ Become(h, s) /\ handlers'[h] = s
    BY <1>0, <1>1 DEF Logout, Become, TypeOK, HandlerStates
  <2>2. RevokeTokens({t})
        /\ UNCHANGED << users, signedAccess, authLog, told, leftIn, misreported >>
    BY <1>1 DEF Logout
  <2>3. Known(handlers[h])'
    BY <1>0, <1>1, <2>1, <2>2 DEF Logout, At, Known, AboutRow, HoldsRow, Registered, HandlerStates
  <2> HIDE DEF s
  <2> QED
    BY <1>0, <2>1, <2>2, <2>3, RevokeFacts, BecomeTurns, WritesKeep DEF TypeOK, Registered
<1>2. ASSUME RevokeSessions(h)
      PROVE  IInv' /\ Live' \subseteq Live /\ UNCHANGED Issued
             /\ \A r \in Issued : sessions'[r].user = sessions[r].user
  <2> DEFINE s == [ handlers[h] EXCEPT !.stage = "auditing" ]
  <2>1. s \in HandlerStates /\ Become(h, s) /\ handlers'[h] = s
    BY <1>0, <1>2 DEF RevokeSessions, Advance, Become, TypeOK, HandlerStates
  <2>2. /\ RevokeTokens(SessionsOf(handlers[h].subject))
        /\ UNCHANGED << users, signedAccess, authLog, told, misreported >>
        /\ leftIn' \in SUBSET UserIds
    BY <1>0, <1>2 DEF RevokeSessions, TypeOK
  <2>3. Known(handlers[h])'
    BY <1>0, <1>2, <2>1, <2>2 DEF RevokeSessions, Known, AboutRow, HoldsRow, Registered, HandlerStates
  <2> HIDE DEF s
  <2> QED
    BY <1>0, <2>1, <2>2, <2>3, RevokeFacts, BecomeTurns, WritesKeep DEF TypeOK, Registered
<1>3. ASSUME CommitPassword(h)
      PROVE  IInv' /\ Live' \subseteq Live /\ UNCHANGED Issued
             /\ \A r \in Issued : sessions'[r].user = sessions[r].user
  <2> DEFINE u == handlers[h].subject
  <2> DEFINE row == [ users[u] EXCEPT !.password = handlers[h].row.password ]
  <2>1. u \in Registered /\ u \in UserIds /\ handlers[h].row \in UserRows
    BY <1>0, <1>3 DEF CommitPassword, Known, AboutRow, HoldsRow, Registered, HandlerStates
  <2>2. /\ RevokeTokens(handlers[h].seen) /\ Finish(h)
        /\ UNCHANGED << signedAccess, told, leftIn, misreported >>
    BY <1>3 DEF CommitPassword
  <2>3. row \in UserRows /\ users' = [ users EXCEPT ![u] = row ]
    BY <1>0, <1>3, <2>1 DEF CommitPassword, TypeOK, Registered, UserRows
  <2>4. authLog' \in AuthEntries
    BY <1>3, <2>1, EntryType DEF CommitPassword, AuthEvents
  <2> HIDE DEF row
  <2>5. users' \in [ UserIds -> UserRows \cup {None} ] /\ Registered \subseteq Registered'
    BY <1>0, <2>1, <2>3, RowType
  <2> QED
    BY <1>0, <2>2, <2>4, <2>5, RevokeFacts, FinishKnown, WritesKeep DEF TypeOK
<1> QED
  BY <1>1, <1>2, <1>3

\* Steps that write the User table alone.
LEMMA RowSteps ==
  ASSUME IInv, NEW h \in Handlers,
         \/ \E u \in UserIds, row \in UserRows : CreateUser(h, u, row)
         \/ \E role \in UserRoles : WriteRole(h, role)
         \/ WriteActive(h)
  PROVE  IInv' /\ UNCHANGED sessions
<1>0. /\ TypeOK /\ RotationKeepsOwner /\ Known(handlers[h]) /\ handlers[h] \in HandlerStates
  BY DEF IInv, RequestsKnown, TypeOK
<1>1. UNCHANGED << sessions, signedAccess, authLog, told, leftIn >>
  BY DEF CreateUser, WriteRole, WriteActive
<1>a. misreported' \in SUBSET UserIds
  <2>1. ASSUME NEW u \in UserIds, NEW whole \in BOOLEAN, Report(u, whole)
        PROVE  misreported' \in SUBSET UserIds
    BY <1>0, <2>1 DEF Report, TypeOK
  <2>2. handlers[h].stage = "loaded" /\ handlers[h].op # "refresh" => handlers[h].subject \in UserIds
    BY <1>0 DEF Known, AboutRow, Registered
  <2> QED
    BY <2>1, <2>2 DEF CreateUser, WriteRole, WriteActive, At
<1>2. /\ RotationKeepsOwner' /\ Issued \subseteq Issued'
      /\ sessions' \in [ Tokens -> Sessions \cup {None} ]
      /\ \A t \in Issued : sessions'[t].user = sessions[t].user
  BY <1>0, <1>1, SameSessions DEF Issued, TypeOK
<1> SUFFICES /\ \E s \in HandlerStates : Turns(h, s)
             /\ Known(handlers[h])'
             /\ users' \in [ UserIds -> UserRows \cup {None} ] /\ Registered \subseteq Registered'
  BY <1>0, <1>1, <1>2, <1>a, WritesKeep DEF TypeOK
<1>3. ASSUME NEW u \in UserIds, NEW row \in UserRows, CreateUser(h, u, row)
      PROVE  /\ \E s \in HandlerStates : Turns(h, s)
             /\ Known(handlers[h])'
             /\ users' \in [ UserIds -> UserRows \cup {None} ] /\ Registered \subseteq Registered'
  <2> DEFINE s == [ handlers[h] EXCEPT !.stage = "auditing", !.subject = u, !.row = row ]
  <2>1. s \in HandlerStates /\ Become(h, s) /\ handlers'[h] = s
    BY <1>0, <1>3 DEF CreateUser, Become, TypeOK, HandlerStates
  <2>2. /\ users' \in [ UserIds -> UserRows \cup {None} ] /\ u \in Registered'
        /\ Registered \subseteq Registered' /\ row # None
    BY <1>0, <1>3, AccountsAssumption DEF CreateUser, TypeOK, Registered
  <2>3. Known(handlers[h])'
    BY <1>0, <1>3, <2>1, <2>2 DEF CreateUser, At, Known, AboutRow, HoldsRow, HandlerStates
  <2> QED
    BY <1>0, <2>1, <2>2, <2>3, BecomeTurns
<1>4. ASSUME NEW row \in UserRows, NEW stage \in {"auditing", "revoking"},
             handlers[h].subject \in Registered, handlers[h].op # "logout",
             stage = "revoking" => handlers[h].op = "deactivate",
             users' = [ users EXCEPT ![handlers[h].subject] = row ],
             Turns(h, [ handlers[h] EXCEPT !.stage = stage, !.row = row ])
      PROVE  /\ \E s \in HandlerStates : Turns(h, s)
             /\ Known(handlers[h])'
             /\ users' \in [ UserIds -> UserRows \cup {None} ] /\ Registered \subseteq Registered'
  <2> DEFINE s == [ handlers[h] EXCEPT !.stage = stage, !.row = row ]
  <2>1. s \in HandlerStates /\ Turns(h, s) /\ handlers'[h] = s
    BY <1>0, <1>4 DEF Turns, HandlerStates
  <2>2. users' \in [ UserIds -> UserRows \cup {None} ] /\ Registered \subseteq Registered'
    BY <1>0, <1>4, RowType
  <2>3. Known(handlers[h])'
    BY <1>0, <1>4, <2>1, <2>2, AccountsAssumption DEF Known, AboutRow, HoldsRow, HandlerStates
  <2> QED
    BY <2>1, <2>2, <2>3
<1>5. ASSUME NEW role \in UserRoles, WriteRole(h, role)
      PROVE  /\ \E s \in HandlerStates : Turns(h, s)
             /\ Known(handlers[h])'
             /\ users' \in [ UserIds -> UserRows \cup {None} ] /\ Registered \subseteq Registered'
  <2> DEFINE row == [ users[handlers[h].subject] EXCEPT !.role = role ]
  <2>1. handlers[h].subject \in Registered /\ handlers[h].op # "logout"
    BY <1>0, <1>5 DEF WriteRole, At, Known, AboutRow, HoldsRow
  <2>2. row \in UserRows
    BY <1>0, <2>1 DEF TypeOK, Registered, UserRows
  <2> DEFINE s == [ handlers[h] EXCEPT !.stage = "auditing", !.row = row ]
  <2>3. Become(h, s) /\ users' = [ users EXCEPT ![handlers[h].subject] = row ]
    BY <1>5 DEF WriteRole
  <2> HIDE DEF row
  <2>4. s \in HandlerStates
    BY <1>0, <2>2 DEF HandlerStates
  <2>5. Turns(h, s)
    <3> HIDE DEF s
    <3> QED
      BY <1>0, <2>3, <2>4, BecomeTurns
  <2> QED
    BY <1>4, <2>1, <2>2, <2>3, <2>5
<1>6. ASSUME WriteActive(h)
      PROVE  /\ \E s \in HandlerStates : Turns(h, s)
             /\ Known(handlers[h])'
             /\ users' \in [ UserIds -> UserRows \cup {None} ] /\ Registered \subseteq Registered'
  <2> DEFINE row == [ users[handlers[h].subject] EXCEPT !.active = (handlers[h].op = "activate") ]
  <2>1. handlers[h].subject \in Registered /\ handlers[h].op # "logout"
    BY <1>0, <1>6 DEF WriteActive, Known, AboutRow
  <2>2. row \in UserRows
    BY <1>0, <2>1 DEF TypeOK, Registered, UserRows
  <2> DEFINE stage == IF row.active THEN "auditing" ELSE "revoking"
  <2>3. /\ users' = [ users EXCEPT ![handlers[h].subject] = row ]
        /\ stage \in {"auditing", "revoking"}
        /\ stage = "revoking" => handlers[h].op = "deactivate"
    BY <1>0, <1>6, <2>1 DEF WriteActive, TypeOK, Registered, UserRows
  <2> DEFINE s == [ handlers[h] EXCEPT !.stage = stage, !.row = row ]
  <2>4. Become(h, s) \/ Overtake(h, handlers[h].subject, s)
    BY <1>6 DEF WriteActive
  <2> HIDE DEF row, stage
  <2>5. s \in HandlerStates
    BY <1>0, <2>2, <2>3 DEF HandlerStates
  <2>6. Turns(h, s)
    <3> HIDE DEF s
    <3> QED
      BY <1>0, <2>4, <2>5, BecomeTurns, OvertakeTurns
  <2> QED
    BY <1>4, <2>1, <2>2, <2>3, <2>6
<1> QED
  BY <1>3, <1>5, <1>6

\* Time and refused sign-ins touch no request.
OtherStep ==
  \/ \E u \in UserIds, password \in Passwords : FailLogin(u, password)
  \/ \E t \in Tokens : FailRefresh(t) \/ ExpireSession(t)
  \/ \E u \in UserIds : ExpireAccess(u)

LEMMA OtherSteps ==
  ASSUME IInv, OtherStep
  PROVE  IInv' /\ Live' \subseteq Live /\ UNCHANGED << Issued, handlers, users >>
         /\ \A t \in Issued : sessions'[t].user = sessions[t].user
<1>0. TypeOK /\ RotationKeepsOwner /\ RequestsKnown
  BY DEF IInv
<1>1. CASE UNCHANGED << users, sessions, told, handlers, leftIn, misreported >>
           /\ signedAccess' \in SUBSET UserIds /\ authLog' \in AuthEntries \cup {None}
  <2>1. RotationKeepsOwner'
    BY <1>0, <1>1, SameSessions
  <2>2. RequestsKnown'
    BY <1>0, <1>1 DEF RequestsKnown, Known, AboutRow, HoldsRow, Registered, SessionsOf, Issued
  <2>3. TypeOK'
    BY <1>0, <1>1 DEF TypeOK
  <2> QED
    BY <1>1, <2>1, <2>2, <2>3 DEF IInv, Live, Unrevoked, Issued
<1>2. ASSUME NEW u \in UserIds, NEW password \in Passwords, FailLogin(u, password)
      PROVE  authLog' \in AuthEntries
  BY <1>2, EntryType DEF FailLogin, AuthEvents
<1>3. ASSUME NEW t \in Tokens, FailRefresh(t)
      PROVE  authLog' \in AuthEntries
  <2>1. sessions[t].user \in UserIds
    BY <1>0, <1>3 DEF FailRefresh, Issued, TypeOK, Sessions
  <2> QED
    BY <1>3, <2>1, EntryType DEF FailRefresh, AuthEvents
<1>4. ASSUME NEW t \in Tokens, ExpireSession(t)
      PROVE  IInv' /\ Live' \subseteq Live /\ UNCHANGED << Issued, handlers, users >>
             /\ \A r \in Issued : sessions'[r].user = sessions[r].user
  <2> DEFINE row == [ sessions[t] EXCEPT !.expired = TRUE ]
  <2>1. /\ row \in Sessions /\ t \in Issued
        /\ row.user = sessions[t].user /\ row.login = sessions[t].login
        /\ row.replacedBy = sessions[t].replacedBy /\ row.revoked = sessions[t].revoked
        /\ row.expired
    BY <1>0, <1>4 DEF ExpireSession, TypeOK, Issued, Sessions
  <2>2. sessions' = [ sessions EXCEPT ![t] = row ]
        /\ UNCHANGED << users, signedAccess, authLog, told, handlers, leftIn, misreported >>
    BY <1>4 DEF ExpireSession
  <2> HIDE DEF row
  <2>3. /\ sessions' \in [ Tokens -> Sessions \cup {None} ] /\ sessions'[t] = row
        /\ \A r \in Tokens \ {t} : sessions'[r] = sessions[r]
    BY <1>0, <2>1, <2>2 DEF TypeOK
  <2>4. Issued' = Issued /\ Issued \subseteq Tokens
    BY <2>1, <2>3, AccountsAssumption DEF Issued
  <2>5. \A r \in Issued :
          /\ sessions'[r].user = sessions[r].user /\ sessions'[r].login = sessions[r].login
          /\ sessions'[r].replacedBy = sessions[r].replacedBy
          /\ sessions'[r].revoked = sessions[r].revoked
          /\ sessions[r].expired => sessions'[r].expired
    BY <2>1, <2>3, <2>4
  <2>6. Live' \subseteq Live
    BY <2>4, <2>5 DEF Live, Unrevoked
  <2>7. RotationKeepsOwner'
    <3> SUFFICES ASSUME NEW r \in Issued'
                 PROVE  KeepsOwner(r)'
      BY DEF RotationKeepsOwner
    <3>1. r \in Issued /\ KeepsOwner(r)
      BY <1>0, <2>4 DEF RotationKeepsOwner
    <3>2. \A q \in SessionsOf(sessions[r].user) :
            /\ q \in Issued' /\ sessions'[q].user = sessions[r].user
            /\ sessions'[q].login = sessions[q].login
      BY <2>4, <2>5 DEF SessionsOf
    <3> QED
      BY <2>5, <3>1, <3>2 DEF KeepsOwner, SessionsOf
  <2>8. RequestsKnown'
    <3>1. Registered' = Registered /\ \A u : SessionsOf(u)' = SessionsOf(u)
      BY <2>2, <2>4, <2>5 DEF Registered, SessionsOf
    <3> QED
      BY <1>0, <2>2, <3>1 DEF RequestsKnown, Known, AboutRow, HoldsRow
  <2>9. TypeOK'
    BY <1>0, <2>2, <2>3 DEF TypeOK
  <2> QED
    BY <2>2, <2>4, <2>5, <2>6, <2>7, <2>8, <2>9 DEF IInv
<1>5. CASE \E u \in UserIds : ExpireAccess(u)
  BY <1>0, <1>1, <1>5 DEF ExpireAccess, TypeOK
<1>6. CASE \E u \in UserIds, password \in Passwords : FailLogin(u, password)
  BY <1>0, <1>1, <1>2, <1>6 DEF FailLogin, TypeOK
<1>7. CASE \E t \in Tokens : FailRefresh(t)
  BY <1>0, <1>1, <1>3, <1>7 DEF FailRefresh, TypeOK
<1> QED
  BY <1>4, <1>5, <1>6, <1>7 DEF OtherStep

-----------------------------------------------------------------------------
(***************************************************************************)
(* The invariant.                                                          *)
(***************************************************************************)

LEMMA InvariantHoldsAtFirst == Init => IInv
<1> SUFFICES ASSUME Init
             PROVE  IInv
  OBVIOUS
<1>1. TypeOK
  <2>1. told \in [ UserIds -> Claims ]
    BY AccountsAssumption DEF Init, Untold, ClaimsOf, Claims, UserRows
  <2> QED
    BY <2>1, AccountsAssumption, IdleIsState DEF Init, TypeOK
<1>2. Issued = {}
  BY DEF Init, Issued
<1>3. \A h \in Handlers : handlers[h] = Idle
  BY DEF Init
<1>4. RequestsKnown
  BY <1>3 DEF RequestsKnown, Known, AboutRow, HoldsRow, Idle
<1> QED
  BY <1>1, <1>2, <1>4 DEF IInv, RotationKeepsOwner

\* One disjunct per lemma above.
LEMMA NextCases ==
  ASSUME Next
  PROVE  \/ OtherStep
         \/ \E h \in Handlers :
              \/ \E op \in AllOperations, u \in UserIds : Authorize(h, op, u)
              \/ \E u \in UserIds : BeginLogin(h, u) \/ LoadUser(h, u)
              \/ \E t \in Tokens : BeginRefresh(h, t) \/ FinishLogin(h, t) \/ FinishRefresh(h, t)
              \/ \E password \in Passwords : CheckOwnPassword(h, password) \/ StorePassword(h, password)
              \/ CountAdmins(h) \/ AuditLogout(h) \/ AuditUser(h) \/ Refuse(h) \/ Abort(h)
              \/ \E t \in Tokens \cup {None} : Logout(h, t)
              \/ CommitPassword(h) \/ RevokeSessions(h)
              \/ \E u \in UserIds, row \in UserRows : CreateUser(h, u, row)
              \/ \E role \in UserRoles : WriteRole(h, role)
              \/ WriteActive(h)
  BY DEF Next, SessionStep, AdminStep, OtherStep

LEMMA InvariantIsKept == IInv /\ [Next]_vars => IInv'
<1> SUFFICES ASSUME IInv, [Next]_vars
             PROVE  IInv'
  OBVIOUS
<1>1. CASE UNCHANGED vars
  BY <1>1 DEF vars, IInv, TypeOK, RotationKeepsOwner, KeepsOwner, RequestsKnown, Known, AboutRow,
              HoldsRow, Registered, SessionsOf, Issued
<1>2. CASE Next
  BY <1>2, NextCases, MoveSteps, FinishLoginFacts, FinishRefreshFacts, RevokeSteps, RowSteps,
     OtherSteps
<1> QED
  BY <1>1, <1>2

\* Every reachable state satisfies the inductive invariant.
THEOREM AccountsInvariance == Spec => []IInv
  BY InvariantHoldsAtFirst, InvariantIsKept, PTL DEF Spec

\* Every table, log and request has its type.
THEOREM AccountsTypeCorrect == Spec => []TypeOK
<1>1. IInv => TypeOK
  BY DEF IInv
<1> QED
  BY <1>1, AccountsInvariance, PTL

\* Rotation keeps sessions with their owner and revokes what it replaces, for
\* any number of users, tokens and concurrent, failing requests.
THEOREM RotationKeepsOwnerAlways == Spec => []RotationKeepsOwner
<1>1. IInv => RotationKeepsOwner
  BY DEF IInv
<1> QED
  BY <1>1, AccountsInvariance, PTL

-----------------------------------------------------------------------------
(***************************************************************************)
(* Signed out stays out.                                                   *)
(***************************************************************************)

\* The next state of request h is not a sign-in or refresh of u on its way.
NotPending(h, u) ==
  ~ /\ handlers'[h].stage = "loaded"
    /\ handlers'[h].op \in {"login", "refresh"}
    /\ handlers'[h].subject = u

\* With no new live session and no new sign-in or refresh on its way, a user
\* who is signed out is so in the next state.
LEMMA StaysOut ==
  ASSUME NEW u \in UserIds, NEW h \in Handlers, SignedOut(u),
         \A g \in Handlers \ {h} : SameRequest(g),
         NotPending(h, u),
         \A t \in Live' : sessions'[t].user = u => t \in Live /\ sessions[t].user = u
  PROVE  SignedOut(u)'
<1>1. Pending(u)' = {}
  BY DEF SignedOut, Pending, SignsIn, NotPending, SameRequest
<1>2. Live' \cap SessionsOf(u)' = {}
  <2> SUFFICES ASSUME NEW t \in Live', t \in SessionsOf(u)'
               PROVE  FALSE
    OBVIOUS
  <2>1. t \in Live /\ sessions[t].user = u
    BY DEF SessionsOf
  <2> QED
    BY <2>1 DEF SignedOut, SessionsOf, Live, Unrevoked
<1> QED
  BY <1>1, <1>2 DEF SignedOut

\* Steps in which one request moves and no session is issued.
LEMMA RequestStaysOut ==
  ASSUME TypeOK, NEW u \in UserIds, NEW h \in Handlers, SignedOut(u),
         \A g \in Handlers \ {h} : SameRequest(g), NotPending(h, u), Live' \subseteq Live,
         \A t \in Issued : sessions'[t].user = sessions[t].user
  PROVE  SignedOut(u)'
<1>1. \A t \in Live' : sessions'[t].user = u => t \in Live /\ sessions[t].user = u
  BY DEF Live, Unrevoked
<1> QED
  BY <1>1, StaysOut

\* The others stay where they are when one request moves, overtaking or not.
LEMMA OthersStay ==
  ASSUME TypeOK, NEW h \in Handlers,
         (\E s : Become(h, s)) \/ \E s, v : Overtake(h, v, s)
  PROVE  \A g \in Handlers \ {h} : SameRequest(g)
<1> SUFFICES ASSUME NEW g \in Handlers \ {h}
             PROVE  SameRequest(g)
  OBVIOUS
<1>0. handlers[g] \in HandlerStates
  BY DEF TypeOK
<1>1. handlers'[g] = handlers[g] \/ handlers'[g] = [ handlers[g] EXCEPT !.overtaken = TRUE ]
  BY DEF Become, Overtake, TypeOK
<1> QED
  BY <1>0, <1>1 DEF HandlerStates, SameRequest

\* A request that ends, or goes to a stage other than "loaded", is not pending.
LEMMA FinishNotPending ==
  ASSUME TypeOK, NEW h \in Handlers, Finish(h), NEW u
  PROVE  NotPending(h, u) /\ \A g \in Handlers \ {h} : SameRequest(g)
<1>1. NotPending(h, u)
  BY DEF Finish, Become, TypeOK, NotPending, Idle
<1> QED
  BY <1>1, OthersStay DEF Finish

LEMMA MoveNotPending ==
  ASSUME IInv, NEW h \in Handlers, NEW u \in UserIds,
         \/ \E op \in AllOperations, v \in UserIds : Authorize(h, op, v)
         \/ \E v \in UserIds : LoadUser(h, v)
         \/ \E password \in Passwords : CheckOwnPassword(h, password) \/ StorePassword(h, password)
         \/ CountAdmins(h) \/ AuditLogout(h) \/ AuditUser(h) \/ Refuse(h) \/ Abort(h)
         \/ \E t \in Tokens \cup {None} : Logout(h, t)
         \/ CommitPassword(h) \/ RevokeSessions(h)
         \/ \E v \in UserIds, row \in UserRows : CreateUser(h, v, row)
         \/ \E role \in UserRoles : WriteRole(h, role)
         \/ WriteActive(h)
  PROVE  NotPending(h, u) /\ \A g \in Handlers \ {h} : SameRequest(g)
<1>0. TypeOK /\ handlers[h] \in HandlerStates /\ Known(handlers[h])
  BY DEF IInv, TypeOK, RequestsKnown
<1>1. CASE Finish(h)
  BY <1>0, <1>1, FinishNotPending
<1>a. ASSUME NEW s, Become(h, s) \/ \E v : Overtake(h, v, s),
             s.stage # "loaded" \/ s.op \notin {"login", "refresh"}
      PROVE  NotPending(h, u) /\ \A g \in Handlers \ {h} : SameRequest(g)
  <2>1. handlers'[h] = s
    BY <1>0, <1>a DEF Become, Overtake, TypeOK
  <2> QED
    BY <1>0, <1>a, <2>1, OthersStay DEF NotPending
<1>2. ASSUME NEW op \in AllOperations, NEW v \in UserIds, Authorize(h, op, v)
      PROVE  NotPending(h, u) /\ \A g \in Handlers \ {h} : SameRequest(g)
  BY <1>2, <1>a DEF Authorize, Idle
<1>3. ASSUME NEW v \in UserIds, LoadUser(h, v)
      PROVE  NotPending(h, u) /\ \A g \in Handlers \ {h} : SameRequest(g)
  <2>1. PICK stage \in {"counting", "loaded"} :
          Become(h, [ handlers[h] EXCEPT !.stage = stage, !.subject = v ])
    BY <1>3 DEF LoadUser
  <2>2. handlers[h].op \in RowOperations
    BY <1>3 DEF LoadUser
  <2> QED
    BY <1>0, <1>a, <2>1, <2>2 DEF RowOperations, HandlerStates
<1>4. ASSUME NEW password \in Passwords, CheckOwnPassword(h, password), ~ Finish(h)
      PROVE  NotPending(h, u) /\ \A g \in Handlers \ {h} : SameRequest(g)
  <2>1. Become(h, [ handlers[h] EXCEPT !.stage = "loaded", !.subject = handlers[h].actor ])
        /\ handlers[h].op = "changePassword"
    BY <1>4 DEF CheckOwnPassword, At
  <2> QED
    BY <1>0, <1>a, <2>1 DEF HandlerStates
<1>5. ASSUME CountAdmins(h)
      PROVE  NotPending(h, u) /\ \A g \in Handlers \ {h} : SameRequest(g)
  <2>1. Become(h, [ handlers[h] EXCEPT !.stage = "loaded" ]) /\ handlers[h].op = "deactivate"
    BY <1>0, <1>5 DEF CountAdmins, Advance, Become, Known
  <2> QED
    BY <1>0, <1>a, <2>1 DEF HandlerStates
<1>6. ASSUME NEW t \in Tokens \cup {None}, Logout(h, t)
      PROVE  NotPending(h, u) /\ \A g \in Handlers \ {h} : SameRequest(g)
  BY <1>0, <1>6, <1>a DEF Logout, HandlerStates
<1>7. ASSUME RevokeSessions(h)
      PROVE  NotPending(h, u) /\ \A g \in Handlers \ {h} : SameRequest(g)
  <2>1. Become(h, [ handlers[h] EXCEPT !.stage = "auditing" ])
    BY <1>7 DEF RevokeSessions, Advance, Become
  <2> QED
    BY <1>0, <1>a, <2>1 DEF HandlerStates
<1>8. ASSUME NEW v \in UserIds, NEW row \in UserRows, CreateUser(h, v, row)
      PROVE  NotPending(h, u) /\ \A g \in Handlers \ {h} : SameRequest(g)
  BY <1>0, <1>8, <1>a DEF CreateUser, HandlerStates
<1>9. ASSUME NEW role \in UserRoles, WriteRole(h, role)
      PROVE  NotPending(h, u) /\ \A g \in Handlers \ {h} : SameRequest(g)
  <2>1. PICK row : Become(h, [ handlers[h] EXCEPT !.stage = "auditing", !.row = row ])
    BY <1>9 DEF WriteRole
  <2> QED
    BY <1>0, <1>a, <2>1 DEF HandlerStates
<1>10. ASSUME WriteActive(h)
       PROVE  NotPending(h, u) /\ \A g \in Handlers \ {h} : SameRequest(g)
  <2> DEFINE row == [ users[handlers[h].subject] EXCEPT !.active = (handlers[h].op = "activate") ]
  <2>1. CASE Become(h, [ handlers[h] EXCEPT !.stage = "auditing", !.row = row ])
    BY <1>0, <1>a, <2>1 DEF HandlerStates
  <2>2. CASE Overtake(h, handlers[h].subject, [ handlers[h] EXCEPT !.stage = "revoking", !.row = row ])
    BY <1>0, <1>a, <2>2 DEF HandlerStates
  <2> QED
    BY <1>10, <2>1, <2>2 DEF WriteActive
<1>11. ASSUME NEW password \in Passwords, StorePassword(h, password)
       PROVE  NotPending(h, u) /\ \A g \in Handlers \ {h} : SameRequest(g)
  <2>1. PICK row, seen, v :
          Overtake(h, v, [ handlers[h] EXCEPT !.stage = "changing", !.row = row, !.seen = seen ])
    BY <1>11 DEF StorePassword
  <2> QED
    BY <1>0, <1>a, <2>1 DEF HandlerStates
<1> QED
  BY <1>1, <1>2, <1>3, <1>4, <1>5, <1>6, <1>7, <1>8, <1>9, <1>10, <1>11
     DEF AuditLogout, AuditUser, Refuse, Abort, CommitPassword

\* What SignedOutStaysOut says of one step and one user.
ComesBackByLogin(u) ==
  SignedOut(u) /\ ~ SignedOut(u)' =>
    /\ u \in Registered /\ users[u].active
    /\ \E h \in Pending(u)' : handlers'[h].op = "login"

LEMMA SignedOutStep ==
  ASSUME IInv, [Next]_vars, NEW u \in UserIds
  PROVE  ComesBackByLogin(u)
<1> SUFFICES ASSUME SignedOut(u)
             PROVE  SignedOut(u)' \/ /\ u \in Registered /\ users[u].active
                                     /\ \E h \in Pending(u)' : handlers'[h].op = "login"
  BY DEF ComesBackByLogin
<1>0. TypeOK
  BY DEF IInv
<1>1. CASE UNCHANGED vars
  BY <1>1 DEF vars, SignedOut, Pending, SignsIn, SessionsOf, Live, Unrevoked, Issued
<1>2. CASE OtherStep
  <2>1. Live' \subseteq Live /\ handlers' = handlers
        /\ \A t \in Issued : sessions'[t].user = sessions[t].user
    BY <1>2, OtherSteps
  <2> QED
    BY <2>1 DEF SignedOut, Pending, SignsIn, SessionsOf, Live, Unrevoked
<1>3. ASSUME NEW h \in Handlers, NEW v \in UserIds, BeginLogin(h, v)
      PROVE  SignedOut(u)' \/ /\ u \in Registered /\ users[u].active
                              /\ \E g \in Pending(u)' : handlers'[g].op = "login"
  <2>1. /\ handlers'[h].stage = "loaded" /\ handlers'[h].op = "login"
        /\ handlers'[h].subject = v /\ \A g \in Handlers \ {h} : SameRequest(g)
    BY <1>0, <1>3, OthersStay DEF BeginLogin, Become, TypeOK, Idle
  <2>2. CASE u = v
    BY <1>3, <2>1, <2>2 DEF BeginLogin, Pending, SignsIn
  <2>3. CASE u # v
    <3>1. NotPending(h, u) /\ UNCHANGED sessions
      BY <1>3, <2>1, <2>3 DEF BeginLogin, NotPending
    <3> QED
      BY <1>0, <2>1, <3>1, RequestStaysOut DEF Live, Unrevoked, Issued
  <2> QED
    BY <2>2, <2>3
<1>4. ASSUME NEW h \in Handlers, NEW t \in Tokens, BeginRefresh(h, t)
      PROVE  SignedOut(u)'
  <2>1. handlers'[h].subject = sessions[t].user /\ (\A g \in Handlers \ {h} : SameRequest(g))
        /\ UNCHANGED sessions
    BY <1>0, <1>4, OthersStay DEF BeginRefresh, Become, TypeOK, Idle
  <2>2. sessions[t].user # u
    BY <1>4 DEF BeginRefresh, Usable, SignedOut, SessionsOf, Live, Unrevoked
  <2>3. NotPending(h, u)
    BY <2>1, <2>2 DEF NotPending
  <2> QED
    BY <1>0, <2>1, <2>3, RequestStaysOut DEF Live, Unrevoked, Issued
<1>5. ASSUME NEW h \in Handlers, NEW t \in Tokens, FinishLogin(h, t) \/ FinishRefresh(h, t)
      PROVE  SignedOut(u)'
  <2>1. /\ Live' \subseteq Live \cup {t}
        /\ sessions'[t].user = handlers[h].subject
        /\ \A r \in Issued : sessions'[r].user = sessions[r].user
    BY <1>5, FinishLoginFacts, FinishRefreshFacts
  <2>2. handlers[h].subject # u
    BY <1>5 DEF FinishLogin, FinishRefresh, At, SignedOut, Pending, SignsIn
  <2>3. /\ \A g \in Handlers \ {h} : SameRequest(g)
        /\ NotPending(h, u)
    BY <1>0, <1>5, FinishNotPending DEF FinishLogin, FinishRefresh
  <2>4. \A r \in Live' : sessions'[r].user = u => r \in Live /\ sessions[r].user = u
    BY <2>1, <2>2 DEF Live, Unrevoked
  <2> QED
    BY <2>3, <2>4, StaysOut
<1>6. ASSUME NEW h \in Handlers,
             \/ \E op \in AllOperations, v \in UserIds : Authorize(h, op, v)
             \/ \E v \in UserIds : LoadUser(h, v)
             \/ \E password \in Passwords :
                  CheckOwnPassword(h, password) \/ StorePassword(h, password)
             \/ CountAdmins(h) \/ AuditLogout(h) \/ AuditUser(h) \/ Refuse(h) \/ Abort(h)
      PROVE  SignedOut(u)'
  <2>1. NotPending(h, u) /\ \A g \in Handlers \ {h} : SameRequest(g)
    BY <1>6, MoveNotPending
  <2>2. UNCHANGED sessions
    BY <1>6 DEF Authorize, LoadUser, CheckOwnPassword, StorePassword, CountAdmins, AuditLogout,
                AuditUser, Refuse, Abort
  <2> QED
    BY <1>0, <2>1, <2>2, RequestStaysOut DEF Live, Unrevoked, Issued
<1>7. ASSUME NEW h \in Handlers,
             \/ \E t \in Tokens \cup {None} : Logout(h, t)
             \/ CommitPassword(h) \/ RevokeSessions(h)
      PROVE  SignedOut(u)'
  <2>1. NotPending(h, u) /\ \A g \in Handlers \ {h} : SameRequest(g)
    BY <1>7, MoveNotPending
  <2>2. Live' \subseteq Live /\ \A t \in Issued : sessions'[t].user = sessions[t].user
    BY <1>7, RevokeSteps
  <2> QED
    BY <1>0, <2>1, <2>2, RequestStaysOut
<1>8. ASSUME NEW h \in Handlers,
             \/ \E v \in UserIds, row \in UserRows : CreateUser(h, v, row)
             \/ \E role \in UserRoles : WriteRole(h, role)
             \/ WriteActive(h)
      PROVE  SignedOut(u)'
  <2>1. NotPending(h, u) /\ \A g \in Handlers \ {h} : SameRequest(g)
    BY <1>8, MoveNotPending
  <2>2. UNCHANGED sessions
    BY <1>8, RowSteps
  <2> QED
    BY <1>0, <2>1, <2>2, RequestStaysOut DEF Live, Unrevoked, Issued
<1> QED
  BY <1>1, <1>2, <1>3, <1>4, <1>5, <1>6, <1>7, <1>8, NextCases

\* A user who is signed out gets a live session back only through a login that
\* finds the account active, whatever requests run together and fail.
THEOREM SignedOutStaysOutAlways == Spec => SignedOutStaysOut
<1>1. IInv /\ [Next]_vars => [\A u \in UserIds : ComesBackByLogin(u)]_vars
  BY SignedOutStep
<1>2. [\A u \in UserIds : ComesBackByLogin(u)]_vars
        <=> [ \A u \in UserIds :
                SignedOut(u) /\ ~ SignedOut(u)' =>
                  /\ u \in Registered /\ users[u].active
                  /\ \E h \in Pending(u)' : handlers'[h].op = "login" ]_vars
  BY DEF ComesBackByLogin
<1> QED
  BY <1>1, <1>2, AccountsInvariance, PTL DEF Spec, SignedOutStaysOut

=============================================================================
