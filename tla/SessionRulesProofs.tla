------------------------- MODULE SessionRulesProofs -------------------------
(***************************************************************************)
(* What users and sessions promise, as theorems about Accounts for every   *)
(* set of users, tokens and passwords, with any number of requests under   *)
(* way, any of which may fail.                                             *)
(***************************************************************************)
EXTENDS AccountsProofs

-----------------------------------------------------------------------------
(***************************************************************************)
(* The invariant of the sessions.                                          *)
(***************************************************************************)

\* The session may be believed: it knows the password, or it was overtaken.
Trusted(t) ==
  sessions[t].overtaken \/ sessions[t].password = users[sessions[t].user].password

\* A login or a refresh that nobody has overtaken read what is still so.
Fresh(g) ==
  SignsIn(g) /\ ~ handlers[g].overtaken =>
    /\ handlers[g].subject \in Registered
    /\ users[handlers[g].subject].active
    /\ ~ Ending(handlers[g].subject)
    /\ handlers[g].op = "login" => handlers[g].row.password = users[handlers[g].subject].password
    /\ handlers[g].op = "refresh" => Trusted(handlers[g].token)

\* What a new password does not see was overtaken.
Unseen(g) ==
  handlers[g].stage = "changing" =>
    \A t \in Unrevoked \cap SessionsOf(handlers[g].subject) :
      t \in handlers[g].seen \/ sessions[t].overtaken

\* The row lock admits one new password of a user at a time.
OneChanges ==
  \A g, h \in Handlers :
    /\ handlers[g].stage = "changing" /\ handlers[h].stage = "changing"
    /\ handlers[g].subject = handlers[h].subject
    => g = h

OwnersRegistered == \A t \in Issued : sessions[t].user \in Registered

Revoking(u) == \E h \in Handlers : handlers[h].stage = "revoking" /\ handlers[h].subject = u

InactiveOut(u) ==
  ~ users[u].active /\ ~ Revoking(u)
    => \A t \in Unrevoked \cap SessionsOf(u) : sessions[t].overtaken

SessionsInv ==
  /\ \A g \in Handlers : Fresh(g)
  /\ \A g \in Handlers : Unseen(g)
  /\ OneChanges
  /\ OwnersRegistered
  /\ \A t \in Unrevoked : Trusted(t)
  /\ \A u \in Registered \ leftIn : InactiveOut(u)

-----------------------------------------------------------------------------
(***************************************************************************)
(* What a step of request h leaves to the others.                          *)
(***************************************************************************)

KeepsFields(t) ==
  /\ sessions'[t].user = sessions[t].user
  /\ sessions'[t].login = sessions[t].login
  /\ sessions'[t].password = sessions[t].password
  /\ sessions'[t].overtaken = sessions[t].overtaken

\* Nobody starts to end the sessions of u, whose password and activity stay.
Calm(u) ==
  /\ Ending(u)' => Ending(u)
  /\ users[u].active => users'[u].active
  /\ users'[u].password = users[u].password

SameHistory(h) == \A g \in Handlers \ {h} : handlers'[g].overtaken = handlers[g].overtaken

LEMMA OthersFresh ==
  ASSUME IInv, SessionsInv, NEW h \in Handlers, NEW s, Turns(h, s),
         Registered \subseteq Registered', \A t \in Issued : KeepsFields(t),
         \A g \in Handlers \ {h} : handlers[g].overtaken => handlers'[g].overtaken,
         \A u \in Registered :
           Calm(u) \/ \A g \in Handlers \ {h} : g \in Pending(u) => handlers'[g].overtaken
  PROVE  \A g \in Handlers \ {h} : Fresh(g)'
<1> SUFFICES ASSUME NEW g \in Handlers \ {h}, SignsIn(g)', ~ handlers'[g].overtaken
             PROVE  /\ handlers'[g].subject \in Registered'
                    /\ users'[handlers'[g].subject].active
                    /\ ~ Ending(handlers[g].subject)'
                    /\ handlers'[g].op = "login" =>
                         handlers'[g].row.password = users'[handlers'[g].subject].password
                    /\ handlers'[g].op = "refresh" => Trusted(handlers[g].token)'
  BY DEF Fresh
<1>0. SameRequest(g) /\ SignsIn(g) /\ ~ handlers[g].overtaken /\ Known(handlers[g]) /\ Fresh(g)
  BY DEF Turns, SameRequest, SignsIn, IInv, RequestsKnown, SessionsInv
<1> QED
  <2>1. PICK u : u = handlers[g].subject
    OBVIOUS
  <2>2. PICK t : t = handlers[g].token
    OBVIOUS
  <2>3. handlers'[g].subject = u /\ handlers'[g].token = t /\ handlers'[g].op = handlers[g].op
        /\ handlers'[g].row = handlers[g].row
    BY <1>0, <2>1, <2>2 DEF SameRequest
  <2>4. u \in Registered /\ users[u].active /\ ~ Ending(u) /\ Calm(u)
    BY <1>0, <2>1 DEF Fresh, Pending
  <2>5. /\ handlers[g].op = "login" => handlers[g].row.password = users[u].password
        /\ handlers[g].op = "refresh" => Trusted(t) /\ t \in Issued /\ sessions[t].user = u
    BY <1>0, <2>1, <2>2 DEF Fresh, Known, SignsIn, SessionsOf
  <2>6. handlers[g].op = "refresh" => Trusted(t)'
    BY <2>4, <2>5 DEF Trusted, KeepsFields, Calm
  <2>7. ~ Ending(u)'
    BY <2>4 DEF Calm
  <2> QED
    BY <2>1, <2>2, <2>3, <2>4, <2>5, <2>6, <2>7 DEF Calm

LEMMA OthersUnseen ==
  ASSUME IInv, SessionsInv, NEW h \in Handlers, NEW s, Turns(h, s),
         \A t \in Issued : KeepsFields(t),
         \A t \in Unrevoked' : t \in Issued => t \in Unrevoked,
         \A t \in Unrevoked' : t \in Issued \/ sessions'[t].overtaken \/ ~ Ending(sessions'[t].user)
  PROVE  \A g \in Handlers \ {h} : Unseen(g)'
<1> SUFFICES ASSUME NEW g \in Handlers \ {h}, handlers'[g].stage = "changing",
                    NEW t \in Unrevoked', t \in SessionsOf(handlers[g].subject)'
             PROVE  t \in handlers'[g].seen \/ sessions'[t].overtaken
  BY DEF Unseen
<1>1. PICK u : u = handlers[g].subject
  OBVIOUS
<1>2. /\ handlers[g].stage = "changing" /\ handlers'[g].seen = handlers[g].seen
      /\ handlers'[g].subject = u /\ Unseen(g) /\ sessions'[t].user = u
  BY <1>1 DEF Turns, SameRequest, SessionsInv, SessionsOf
<1>3. CASE t \in Issued
  BY <1>1, <1>2, <1>3 DEF Unseen, KeepsFields, SessionsOf
<1>4. CASE t \notin Issued
  <2>1. Ending(u)
    BY <1>1, <1>2 DEF Ending
  <2> QED
    BY <1>2, <1>4, <2>1
<1> QED
  BY <1>3, <1>4

LEMMA OneStillChanges ==
  ASSUME SessionsInv, NEW h \in Handlers, NEW s, Turns(h, s),
         s.stage = "changing" => ~ Locked(s.subject)
  PROVE  OneChanges'
<1>1. \A g \in Handlers \ {h} : SameRequest(g)
  BY DEF Turns
<1>2. OneChanges /\ handlers'[h] = s
  BY DEF SessionsInv, Turns
<1> QED
  BY <1>1, <1>2 DEF OneChanges, SameRequest, Locked

\* A request that does not start to end sessions disturbs nobody.
LEMMA CalmStep ==
  ASSUME NEW h \in Handlers, NEW s, Turns(h, s), s.stage \notin {"changing", "revoking"}, NEW u
  PROVE  /\ Ending(u)' => Ending(u)
         /\ Revoking(u)' => Revoking(u)
         /\ handlers[h].stage # "revoking" => (Revoking(u)' <=> Revoking(u))
BY DEF Turns, SameRequest, Ending, Revoking

\* Nor, for the others, one that starts to end those of another user.
LEMMA CalmElsewhere ==
  ASSUME NEW h \in Handlers, NEW s, Turns(h, s), NEW u, s.subject # u,
         handlers[h].stage \notin {"changing", "revoking"}
  PROVE  (Ending(u)' <=> Ending(u)) /\ (Revoking(u)' <=> Revoking(u))
BY DEF Turns, SameRequest, Ending, Revoking

-----------------------------------------------------------------------------
(***************************************************************************)
(* Steps that read, answer or fail.                                        *)
(***************************************************************************)

\* Request h goes to state s and writes neither users nor sessions.
Quiet(h, s) ==
  /\ UNCHANGED << users, sessions >>
  /\ Turns(h, s) /\ SameHistory(h)
  /\ leftIn \subseteq leftIn'
  /\ s.stage \notin {"changing", "revoking"}
  /\ handlers[h].stage = "revoking" => handlers[h].subject \in leftIn'

LEMMA QuietKeeps ==
  ASSUME IInv, SessionsInv, NEW h \in Handlers, NEW s, Quiet(h, s), Fresh(h)'
  PROVE  SessionsInv'
<1>0. /\ Turns(h, s) /\ s.stage \notin {"changing", "revoking"}
      /\ Registered' = Registered /\ Issued' = Issued /\ Unrevoked' = Unrevoked
      /\ \A t \in Issued : KeepsFields(t)
  BY DEF Quiet, Registered, Issued, Unrevoked, KeepsFields
<1>1. \A g \in Handlers : Fresh(g)'
  <2>1. \A u \in Registered : Calm(u)
    BY <1>0, CalmStep DEF Quiet, Calm
  <2>2. \A g \in Handlers \ {h} : Fresh(g)'
    BY <1>0, <2>1, OthersFresh DEF Quiet, SameHistory
  <2> QED
    BY <2>2
<1>2. \A g \in Handlers : Unseen(g)'
  <2>1. \A g \in Handlers \ {h} : Unseen(g)'
    BY <1>0, OthersUnseen DEF Unrevoked
  <2>2. Unseen(h)'
    BY <1>0 DEF Unseen, Turns
  <2> QED
    BY <2>1, <2>2
<1>3. OneChanges'
  BY <1>0, OneStillChanges
<1>4. OwnersRegistered' /\ \A t \in Unrevoked' : Trusted(t)'
  BY <1>0 DEF Quiet, SessionsInv, OwnersRegistered, Trusted
<1>5. ASSUME NEW u \in Registered' \ leftIn' PROVE InactiveOut(u)'
  <2>1. u \in Registered /\ u \notin leftIn /\ InactiveOut(u)
    BY <1>0, <1>5 DEF Quiet, SessionsInv
  <2>2. Revoking(u) => Revoking(u)'
    BY <1>0, <1>5 DEF Quiet, Revoking, Turns, SameRequest
  <2> QED
    BY <1>0, <2>1, <2>2 DEF Quiet, InactiveOut, SessionsOf
<1> QED
  BY <1>1, <1>2, <1>3, <1>4, <1>5 DEF SessionsInv

LEMMA QuietSteps ==
  ASSUME IInv, SessionsInv, NEW h \in Handlers,
         \/ \E op \in AllOperations, u \in UserIds : Authorize(h, op, u)
         \/ \E u \in UserIds : BeginLogin(h, u) \/ LoadUser(h, u)
         \/ \E t \in Tokens : BeginRefresh(h, t)
         \/ \E password \in Passwords : CheckOwnPassword(h, password)
         \/ CountAdmins(h) \/ AuditLogout(h) \/ AuditUser(h) \/ Refuse(h) \/ Abort(h)
  PROVE  SessionsInv'
<1> DEFINE p == handlers[h]
<1>0. /\ TypeOK /\ Known(p) /\ p \in HandlerStates
  BY DEF IInv, RequestsKnown, TypeOK
<1>1. ASSUME NEW s \in HandlerStates, Become(h, s), UNCHANGED << users, sessions >>,
             leftIn \subseteq leftIn', s.stage \notin {"changing", "revoking"},
             p.stage = "revoking" => p.subject \in leftIn',
             s.stage # "loaded" \/ s.op \notin {"login", "refresh"} \/ Fresh(h)'
      PROVE  SessionsInv'
  <2>1. Turns(h, s) /\ SameHistory(h)
    BY <1>0, <1>1, BecomeTurns DEF SameHistory
  <2>2. Fresh(h)'
    BY <1>1, <2>1 DEF Fresh, SignsIn, Turns
  <2> QED
    BY <1>1, <2>1, <2>2, QuietKeeps DEF Quiet
<1>2. Idle \in HandlerStates /\ Idle.stage = "idle"
  BY IdleIsState DEF Idle
<1>3. ASSUME Finish(h), UNCHANGED << users, sessions >>, leftIn \subseteq leftIn',
             p.stage = "revoking" => p.subject \in leftIn'
      PROVE  SessionsInv'
  BY <1>1, <1>2, <1>3 DEF Finish
<1>4. ASSUME NEW op \in AllOperations, NEW u \in UserIds, Authorize(h, op, u)
      PROVE  SessionsInv'
  <2>1. PICK s : s = [ Idle EXCEPT !.stage = "authorized", !.op = op, !.actor = u ]
    OBVIOUS
  <2>2. s.stage = "authorized" /\ s \in HandlerStates
    BY <1>2, <2>1 DEF Idle, HandlerStates
  <2>3. Become(h, s) /\ UNCHANGED << users, sessions, leftIn >> /\ p = Idle
    BY <1>4, <2>1 DEF Authorize
  <2> QED
    BY <1>1, <1>2, <2>2, <2>3
<1>5. ASSUME NEW u \in UserIds, BeginLogin(h, u)
      PROVE  SessionsInv'
  <2>0. Ending(u) \in BOOLEAN /\ users[u] \in UserRows /\ u \in Registered /\ users[u].active
    BY <1>0, <1>5 DEF Ending, BeginLogin, TypeOK, Registered
  <2>1. PICK s : s = [ Idle EXCEPT !.stage = "loaded", !.op = "login", !.subject = u,
                                   !.row = users[u], !.overtaken = Ending(u) ]
    OBVIOUS
  <2>2. /\ s.stage = "loaded" /\ s.op = "login" /\ s.subject = u /\ s.row = users[u]
        /\ s.overtaken = Ending(u) /\ s \in HandlerStates
    BY <1>2, <2>0, <2>1 DEF Idle, HandlerStates, AllOperations
  <2>3. /\ Become(h, s) /\ UNCHANGED << users, sessions, leftIn >> /\ p = Idle
    BY <1>5, <2>1 DEF BeginLogin
  <2>4. handlers'[h] = s /\ (Ending(u)' => Ending(u)) /\ Registered' = Registered
    BY <1>0, <2>2, <2>3, BecomeTurns, CalmStep DEF Turns, Registered
  <2>5. Fresh(h)'
    BY <2>0, <2>2, <2>3, <2>4 DEF Fresh, SignsIn
  <2> QED
    BY <1>1, <1>2, <2>2, <2>3, <2>5
<1>6. ASSUME NEW t \in Tokens, BeginRefresh(h, t)
      PROVE  SessionsInv'
  <2> DEFINE u == sessions[t].user
  <2>0. /\ Ending(u) \in BOOLEAN /\ t \in Unrevoked /\ u \in UserIds /\ u \in Registered
        /\ users[u].active /\ Trusted(t)
    BY <1>0, <1>6 DEF Ending, BeginRefresh, Usable, Live, Unrevoked, Issued, TypeOK, Sessions,
                      SessionsInv, OwnersRegistered
  <2>1. PICK s : s = [ Idle EXCEPT !.stage = "loaded", !.op = "refresh", !.token = t,
                                   !.subject = u, !.overtaken = Ending(u) ]
    OBVIOUS
  <2>a. PICK v : v = u
    OBVIOUS
  <2>2. /\ s.stage = "loaded" /\ s.op = "refresh" /\ s.subject = v /\ s.token = t
        /\ s.overtaken = Ending(v) /\ s \in HandlerStates
    BY <1>2, <2>0, <2>1, <2>a DEF Idle, HandlerStates, AllOperations
  <2>3. /\ Become(h, s) /\ UNCHANGED << users, sessions, leftIn >> /\ p = Idle
    BY <1>6, <2>1 DEF BeginRefresh
  <2>4. handlers'[h] = s /\ (Ending(v)' => Ending(v)) /\ Registered' = Registered
    BY <1>0, <2>2, <2>3, BecomeTurns, CalmStep DEF Turns, Registered
  <2>5. Trusted(t)'
    BY <2>0, <2>3 DEF Trusted
  <2>6. Fresh(h)'
    BY <2>0, <2>a, <2>2, <2>3, <2>4, <2>5 DEF Fresh, SignsIn
  <2> QED
    BY <1>1, <1>2, <2>2, <2>3, <2>6
<1>7. ASSUME NEW u \in UserIds, LoadUser(h, u)
      PROVE  SessionsInv'
  <2>1. PICK stage \in {"counting", "loaded"} :
          Become(h, [ p EXCEPT !.stage = stage, !.subject = u ])
    BY <1>7 DEF LoadUser
  <2>2. PICK s : s = [ p EXCEPT !.stage = stage, !.subject = u ]
    OBVIOUS
  <2>3. /\ s.stage = stage /\ s.op = p.op /\ p.stage = "authorized" /\ p.op \in RowOperations
        /\ s \in HandlerStates
    BY <1>0, <1>7, <2>2 DEF LoadUser, HandlerStates
  <2>4. Become(h, s) /\ UNCHANGED << users, sessions, leftIn >>
    BY <1>7, <2>1, <2>2 DEF LoadUser
  <2> QED
    BY <1>1, <2>3, <2>4 DEF RowOperations
<1>8. ASSUME NEW password \in Passwords, CheckOwnPassword(h, password)
      PROVE  SessionsInv'
  <2>1. /\ p.stage = "authorized" /\ p.op = "changePassword" /\ p.actor \in UserIds
        /\ UNCHANGED << users, sessions, leftIn >>
    BY <1>0, <1>8 DEF CheckOwnPassword, At, Known, Registered
  <2>2. CASE Finish(h)
    BY <1>3, <2>1, <2>2
  <2>3. CASE Become(h, [ p EXCEPT !.stage = "loaded", !.subject = p.actor ])
    <3>1. PICK s : s = [ p EXCEPT !.stage = "loaded", !.subject = p.actor ]
      OBVIOUS
    <3>2. s.stage = "loaded" /\ s.op = "changePassword" /\ s \in HandlerStates
      BY <1>0, <2>1, <3>1 DEF HandlerStates
    <3>3. Become(h, s)
      BY <2>3, <3>1
    <3> QED
      BY <1>1, <2>1, <3>2, <3>3
  <2> QED
    BY <1>8, <2>2, <2>3 DEF CheckOwnPassword
<1>9. ASSUME CountAdmins(h)
      PROVE  SessionsInv'
  <2>1. PICK s : s = [ p EXCEPT !.stage = "loaded" ]
    OBVIOUS
  <2>2. s.stage = "loaded" /\ s.op = "deactivate" /\ p.stage = "counting" /\ s \in HandlerStates
    BY <1>0, <1>9, <2>1 DEF CountAdmins, Known, HandlerStates
  <2>3. Become(h, s) /\ UNCHANGED << users, sessions, leftIn >>
    BY <1>9, <2>1 DEF CountAdmins, Advance, Become
  <2> QED
    BY <1>1, <2>2, <2>3
<1>10. ASSUME AuditLogout(h) \/ AuditUser(h) \/ Refuse(h)
       PROVE  SessionsInv'
  <2>1. Finish(h) /\ UNCHANGED << users, sessions, leftIn >> /\ p.stage # "revoking"
    BY <1>10 DEF AuditLogout, AuditUser, Refuse, At
  <2> QED
    BY <1>3, <2>1
<1>11. ASSUME Abort(h)
       PROVE  SessionsInv'
  <2>1. Finish(h) /\ UNCHANGED << users, sessions >> /\ leftIn \subseteq leftIn'
    BY <1>11 DEF Abort
  <2>2. p.stage = "revoking" => p.subject \in leftIn'
    BY <1>0, <1>11 DEF Abort, Known, AboutRow, Registered
  <2> QED
    BY <1>3, <2>1, <2>2
<1> QED
  BY <1>4, <1>5, <1>6, <1>7, <1>8, <1>9, <1>10, <1>11

\* Time passes, or an attempt is refused.
Waits ==
  /\ UNCHANGED << users, told, handlers, leftIn, misreported >>
  /\ Issued' = Issued /\ Unrevoked' = Unrevoked
  /\ \A t \in Issued : KeepsFields(t)

LEMMA OtherWaits ==
  ASSUME IInv, OtherStep
  PROVE  Waits
<1>0. TypeOK
  BY DEF IInv
<1>1. ASSUME NEW t \in Tokens, ExpireSession(t) PROVE Waits
  <2>1. PICK row : row = [ sessions[t] EXCEPT !.expired = TRUE ]
    OBVIOUS
  <2>2. /\ t \in Issued /\ sessions[t] \in Sessions
        /\ UNCHANGED << users, told, handlers, leftIn, misreported >>
    BY <1>0, <1>1 DEF ExpireSession, Issued, TypeOK
  <2>3. /\ row \in Sessions
        /\ row.user = sessions[t].user /\ row.login = sessions[t].login
        /\ row.password = sessions[t].password /\ row.revoked = sessions[t].revoked
        /\ row.overtaken = sessions[t].overtaken
    BY <2>1, <2>2 DEF Sessions
  <2>4. sessions' = [ sessions EXCEPT ![t] = row ]
    BY <1>1, <2>1 DEF ExpireSession
  <2>5. sessions'[t] = row /\ \A r \in Tokens \ {t} : sessions'[r] = sessions[r]
    BY <1>0, <2>4 DEF TypeOK
  <2>6. Issued' = Issued /\ Issued \subseteq Tokens
    BY <2>2, <2>3, <2>5, AccountsAssumption DEF Issued
  <2>7. \A r \in Issued : KeepsFields(r) /\ sessions'[r].revoked = sessions[r].revoked
    BY <2>3, <2>5, <2>6 DEF KeepsFields
  <2> QED
    BY <2>2, <2>6, <2>7 DEF Waits, Unrevoked
<1>2. CASE UNCHANGED << users, sessions, told, handlers, leftIn, misreported >>
  BY <1>2 DEF Waits, Issued, Unrevoked, KeepsFields
<1> QED
  BY <1>1, <1>2 DEF OtherStep, FailLogin, FailRefresh, ExpireAccess

LEMMA WaitsKeeps ==
  ASSUME IInv, SessionsInv, Waits
  PROVE  SessionsInv'
<1>0. /\ Registered' = Registered /\ Issued' = Issued /\ Unrevoked' = Unrevoked
      /\ UNCHANGED << users, handlers, leftIn >>
      /\ \A t \in Issued : KeepsFields(t)
  BY DEF Waits, Registered
<1>1. \A t \in Issued : Trusted(t)' <=> Trusted(t)
  BY <1>0 DEF Trusted, KeepsFields
<1>2. ASSUME NEW g \in Handlers PROVE Fresh(g)'
  <2>1. Fresh(g) /\ Known(handlers[g])
    BY DEF SessionsInv, IInv, RequestsKnown
  <2>2. SignsIn(g) /\ handlers[g].op = "refresh" => handlers[g].token \in Issued
    BY <2>1 DEF Known, SignsIn, SessionsOf
  <2>3. (SignsIn(g)' <=> SignsIn(g)) /\ \A u : Ending(u)' <=> Ending(u)
    BY <1>0 DEF SignsIn, Ending
  <2>4. PICK u, t : u = handlers[g].subject /\ t = handlers[g].token
    OBVIOUS
  <2>5. handlers'[g].subject = u /\ handlers'[g].token = t
    BY <1>0, <2>4
  <2> QED
    BY <1>0, <1>1, <2>1, <2>2, <2>3, <2>4, <2>5 DEF Fresh
<1>3. \A u : SessionsOf(u)' = SessionsOf(u)
  BY <1>0 DEF SessionsOf, KeepsFields
<1>4. ASSUME NEW g \in Handlers PROVE Unseen(g)'
  <2>1. Unseen(g)
    BY DEF SessionsInv
  <2> QED
    BY <1>0, <2>1 DEF Unseen, KeepsFields, SessionsOf, Unrevoked
<1>5. OneChanges' /\ OwnersRegistered' /\ \A t \in Unrevoked' : Trusted(t)'
  BY <1>0, <1>1 DEF SessionsInv, OneChanges, OwnersRegistered, KeepsFields, Unrevoked
<1>6. ASSUME NEW u \in Registered' \ leftIn' PROVE InactiveOut(u)'
  <2>1. InactiveOut(u) /\ (Revoking(u)' <=> Revoking(u))
    BY <1>0, <1>6 DEF SessionsInv, Revoking
  <2> QED
    BY <1>0, <1>3, <2>1 DEF InactiveOut, KeepsFields, Unrevoked
<1> QED
  BY <1>2, <1>4, <1>5, <1>6 DEF SessionsInv

-----------------------------------------------------------------------------
(***************************************************************************)
(* Steps that open or end sessions.                                        *)
(***************************************************************************)

\* A session opens, by itself or in place of another.
Issues(h, t) ==
  /\ UNCHANGED << users, told, leftIn, misreported >>
  /\ Turns(h, Idle) /\ SameHistory(h)
  /\ SignsIn(h) /\ t \in Tokens \ Issued
  /\ Issued' = Issued \cup {t}
  /\ \A r \in Issued : KeepsFields(r)
  /\ sessions'[t].user = handlers[h].subject
  /\ \/ /\ handlers[h].op = "login"
        /\ sessions'[t].login = t /\ Unrevoked' = Unrevoked \cup {t}
        /\ sessions'[t].password = handlers[h].row.password
        /\ sessions'[t].overtaken = handlers[h].overtaken
     \/ \E r \in Issued :
          /\ handlers[h].op = "refresh" /\ r = handlers[h].token
          /\ sessions'[t].login = sessions[r].login /\ Unrevoked' = (Unrevoked \ {r}) \cup {t}
          /\ sessions'[t].password = sessions[r].password
          /\ sessions'[t].overtaken = (sessions[r].overtaken \/ handlers[h].overtaken)

LEMMA IssueSteps ==
  ASSUME IInv, NEW h \in Handlers, NEW t \in Tokens, FinishLogin(h, t) \/ FinishRefresh(h, t)
  PROVE  Issues(h, t)
<1> DEFINE p == handlers[h]
           u == p.subject
<1>0. /\ TypeOK /\ Known(p) /\ p \in HandlerStates
  BY DEF IInv, RequestsKnown, TypeOK
<1>1. /\ Turns(h, Idle) /\ SameHistory(h) /\ UNCHANGED << users, told, leftIn, misreported >>
      /\ t \in Tokens \ Issued /\ SignsIn(h) /\ Issued \subseteq Tokens
  <2>1. Finish(h)
    BY DEF FinishLogin, FinishRefresh
  <2>2. Turns(h, Idle) /\ SameHistory(h)
    BY <1>0, <2>1, IdleIsState, BecomeTurns DEF Finish, SameHistory
  <2> QED
    BY <2>2 DEF FinishLogin, FinishRefresh, At, SignsIn, Issued
<1>2. None \notin Sessions
  BY AccountsAssumption
<1>3. CASE FinishLogin(h, t)
  <2>1. /\ u \in UserIds /\ p.row.password \in Passwords /\ p.overtaken \in BOOLEAN
        /\ p.op = "login"
    BY <1>0, <1>3 DEF FinishLogin, At, Known, AboutRow, HoldsRow, Registered, HandlerStates, UserRows
  <2>2. PICK new : new = NewSession(u, t, p.row.password, p.overtaken)
    OBVIOUS
  <2>3. /\ new.user = u /\ new.login = t /\ new.password = p.row.password /\ ~ new.revoked
        /\ new.overtaken = p.overtaken /\ new \in Sessions
    BY <2>1, <2>2, NewSessionFacts
  <2>4. sessions' = [ sessions EXCEPT ![t] = new ]
    BY <1>3, <2>2 DEF FinishLogin
  <2>5. sessions'[t] = new /\ \A r \in Tokens \ {t} : sessions'[r] = sessions[r]
    BY <1>0, <2>4 DEF TypeOK
  <2>6. Issued' = Issued \cup {t} /\ Unrevoked' = Unrevoked \cup {t}
    BY <1>1, <1>2, <2>3, <2>5 DEF Issued, Unrevoked
  <2>7. \A r \in Issued : KeepsFields(r)
    BY <1>1, <2>5 DEF KeepsFields
  <2> QED
    BY <1>1, <2>1, <2>3, <2>5, <2>6, <2>7 DEF Issues
<1>4. CASE FinishRefresh(h, t)
  <2> DEFINE old == p.token
             flag == sessions[old].overtaken \/ p.overtaken
  <2>1. /\ old \in Issued /\ sessions[old].user = u /\ sessions[old] \in Sessions /\ p.op = "refresh"
        /\ flag \in BOOLEAN
    BY <1>0, <1>4 DEF FinishRefresh, At, Known, SessionsOf, Issued, TypeOK
  <2>a. /\ u \in UserIds /\ sessions[old].login \in Tokens /\ sessions[old].password \in Passwords
    BY <2>1 DEF Sessions
  <2>2. PICK new : new = NewSession(u, sessions[old].login, sessions[old].password, flag)
    OBVIOUS
  <2>b. new = Successor(h, old)
    BY <2>1, <2>2 DEF Successor
  <2>3. sessions' = [ sessions EXCEPT ![old].revoked = TRUE, ![old].replacedBy = t, ![t] = new ]
    BY <1>4, <2>b DEF FinishRefresh
  <2> HIDE DEF flag
  <2>4. /\ new.user = u /\ new.login = sessions[old].login
        /\ new.password = sessions[old].password /\ new.overtaken = flag
        /\ ~ new.revoked /\ new \in Sessions
    BY <2>1, <2>a, <2>2, NewSessionFacts
  <2>6. old # t /\ old \in Tokens
    BY <1>1, <2>1
  <2>7. /\ sessions'[t] = new
        /\ sessions'[old] = [ sessions[old] EXCEPT !.revoked = TRUE, !.replacedBy = t ]
        /\ \A r \in Tokens \ {t, old} : sessions'[r] = sessions[r]
    BY <1>0, <2>3, <2>6 DEF TypeOK
  <2>8. /\ sessions'[old].revoked /\ sessions'[old].user = sessions[old].user
        /\ sessions'[old].login = sessions[old].login
        /\ sessions'[old].password = sessions[old].password
        /\ sessions'[old].overtaken = sessions[old].overtaken
        /\ sessions'[old] # None
    <3>1. PICK row : row = [ sessions[old] EXCEPT !.revoked = TRUE, !.replacedBy = t ]
      OBVIOUS
    <3>2. /\ row.revoked /\ row.user = sessions[old].user /\ row.login = sessions[old].login
          /\ row.password = sessions[old].password /\ row.overtaken = sessions[old].overtaken
          /\ row \in Sessions
      BY <1>1, <2>1, <3>1 DEF Sessions
    <3> QED
      BY <1>2, <2>7, <3>1, <3>2
  <2>9. Issued' = Issued \cup {t}
    BY <1>1, <1>2, <2>1, <2>4, <2>6, <2>7, <2>8 DEF Issued
  <2>10. Unrevoked' = (Unrevoked \ {old}) \cup {t}
    BY <1>1, <2>4, <2>6, <2>7, <2>8, <2>9 DEF Unrevoked
  <2>11. \A r \in Issued : KeepsFields(r)
    BY <1>1, <2>7, <2>8 DEF KeepsFields
  <2> QED
    BY <1>1, <2>1, <2>4, <2>7, <2>9, <2>10, <2>11 DEF Issues, flag
<1> QED
  BY <1>3, <1>4

LEMMA IssuesKeeps ==
  ASSUME IInv, SessionsInv, NEW h \in Handlers, NEW t \in Tokens, Issues(h, t)
  PROVE  SessionsInv'
<1> DEFINE p == handlers[h]
<1>0. /\ Turns(h, Idle) /\ Idle.stage = "idle" /\ Registered' = Registered
      /\ UNCHANGED << users, leftIn >>
      /\ \A r \in Issued : KeepsFields(r)
      /\ t \notin Issued /\ Issued' = Issued \cup {t}
      /\ \A r \in Unrevoked' : r = t \/ r \in Unrevoked
      /\ Known(p) /\ SignsIn(h) /\ Fresh(h)
  BY DEF Issues, Idle, Registered, IInv, RequestsKnown, SessionsInv
<1>1. PICK u : u = p.subject
  OBVIOUS
<1>2. sessions'[t].user = u /\ (p.overtaken => sessions'[t].overtaken)
  BY <1>1 DEF Issues
<1>3. ~ sessions'[t].overtaken =>
        /\ users[u].active /\ ~ Ending(u)
        /\ sessions'[t].password = users[u].password
  <2>1. ~ p.overtaken => u \in Registered /\ users[u].active /\ ~ Ending(u)
    BY <1>0, <1>1 DEF Fresh
  <2>2. CASE p.op = "login"
    BY <1>0, <1>1, <2>1, <2>2 DEF Issues, Fresh
  <2>3. CASE p.op = "refresh"
    <3>1. PICK r \in Issued :
            /\ r = p.token /\ sessions'[t].password = sessions[r].password
            /\ sessions'[t].overtaken = (sessions[r].overtaken \/ p.overtaken)
      BY <2>3 DEF Issues
    <3>2. sessions[r].user = u
      BY <1>0, <1>1, <2>3, <3>1 DEF Known, SignsIn, SessionsOf
    <3> QED
      BY <1>0, <2>1, <2>3, <3>1, <3>2 DEF Fresh, Trusted
  <2> QED
    BY <2>2, <2>3 DEF Issues
<1>4. u \in Registered
  <2>1. CASE p.op = "login"
    BY <1>0, <1>1, <2>1 DEF Known, AboutRow, SignsIn
  <2>2. CASE p.op = "refresh"
    BY <1>0, <1>1, <2>2 DEF Known, SignsIn, SessionsOf, SessionsInv, OwnersRegistered
  <2> QED
    BY <1>0, <2>1, <2>2 DEF SignsIn
<1>5. \A g \in Handlers : Fresh(g)'
  <2>1. \A v \in Registered : Calm(v)
    BY <1>0, CalmStep DEF Calm
  <2>2. \A g \in Handlers \ {h} : Fresh(g)'
    BY <1>0, <2>1, OthersFresh DEF Issues, SameHistory
  <2>3. Fresh(h)'
    BY <1>0 DEF Turns, Fresh, SignsIn
  <2> QED
    BY <2>2, <2>3
<1>6. \A g \in Handlers : Unseen(g)'
  <2>1. \A r \in Unrevoked' : r \in Issued => r \in Unrevoked
    BY <1>0
  <2>2. \A r \in Unrevoked' : r \in Issued \/ sessions'[r].overtaken \/ ~ Ending(sessions'[r].user)
    BY <1>0, <1>2, <1>3 DEF Unrevoked
  <2>3. \A g \in Handlers \ {h} : Unseen(g)'
    BY <1>0, <2>1, <2>2, OthersUnseen
  <2>4. Unseen(h)'
    BY <1>0 DEF Turns, Unseen
  <2> QED
    BY <2>3, <2>4
<1>7. OneChanges' /\ OwnersRegistered'
  BY <1>0, <1>2, <1>4, OneStillChanges DEF SessionsInv, OwnersRegistered, KeepsFields
<1>8. \A r \in Unrevoked' : Trusted(r)'
  BY <1>0, <1>2, <1>3 DEF SessionsInv, Trusted, KeepsFields, Unrevoked
<1>9. ASSUME NEW v \in Registered' \ leftIn' PROVE InactiveOut(v)'
  <2>1. InactiveOut(v) /\ (Revoking(v)' <=> Revoking(v))
    BY <1>0, <1>9, CalmStep DEF SessionsInv, SignsIn
  <2> QED
    BY <1>0, <1>2, <1>3, <2>1 DEF InactiveOut, SessionsOf, KeepsFields, Unrevoked
<1> QED
  BY <1>5, <1>6, <1>7, <1>8, <1>9 DEF SessionsInv

\* Sessions that are revoked keep what they say.
LEMMA RevokedKeeps ==
  ASSUME TypeOK, NEW S, RevokeTokens(S)
  PROVE  \A t \in Issued : KeepsFields(t)
BY DEF RevokeTokens, TypeOK, Issued, Sessions, KeepsFields

\* Sessions end, users stay as they are.
Revokes(h, s, S) ==
  /\ UNCHANGED << users, told, misreported >>
  /\ Turns(h, s) /\ SameHistory(h)
  /\ s.stage = "auditing" /\ s.op = handlers[h].op
  /\ s.subject = handlers[h].subject /\ s.row = handlers[h].row
  /\ Issued' = Issued /\ Unrevoked' = Unrevoked \ S
  /\ \A t \in Issued : KeepsFields(t)
  /\ \/ handlers[h].stage = "authorized" /\ s.op = "logout" /\ UNCHANGED leftIn
     \/ /\ handlers[h].stage = "revoking" /\ SessionsOf(handlers[h].subject) \subseteq S
        /\ leftIn' = leftIn \ {handlers[h].subject}

LEMMA RevokeForms ==
  ASSUME IInv, NEW h \in Handlers,
         (\E t \in Tokens \cup {None} : Logout(h, t)) \/ RevokeSessions(h)
  PROVE  \E s, S : Revokes(h, s, S)
<1> DEFINE p == handlers[h]
<1>0. /\ TypeOK /\ Known(p) /\ p \in HandlerStates /\ RotationKeepsOwner
  BY DEF IInv, RequestsKnown, TypeOK
<1>1. ASSUME NEW t \in Tokens \cup {None}, Logout(h, t)
      PROVE  \E s, S : Revokes(h, s, S)
  <2>1. PICK s : s = [ p EXCEPT !.stage = "auditing", !.token = t ]
    OBVIOUS
  <2>2. /\ s.stage = "auditing" /\ s.op = "logout" /\ p.stage = "authorized" /\ p.op = "logout"
        /\ s.subject = p.subject /\ s.row = p.row /\ s \in HandlerStates
    BY <1>0, <1>1, <2>1 DEF Logout, At, HandlerStates
  <2>3. Become(h, s) /\ UNCHANGED << users, told, leftIn, misreported >> /\ RevokeTokens({t})
    BY <1>1, <2>1 DEF Logout
  <2>4. Turns(h, s) /\ SameHistory(h)
    BY <1>0, <2>2, <2>3, BecomeTurns DEF SameHistory
  <2>5. Revokes(h, s, {t})
    BY <1>0, <2>2, <2>3, <2>4, RevokeFacts, RevokedKeeps DEF Revokes
  <2> QED
    BY <2>5
<1>2. ASSUME RevokeSessions(h)
      PROVE  \E s, S : Revokes(h, s, S)
  <2>1. PICK s : s = [ p EXCEPT !.stage = "auditing" ]
    OBVIOUS
  <2>2. /\ s.stage = "auditing" /\ s.op = p.op /\ s.subject = p.subject /\ s.row = p.row
        /\ p.stage = "revoking" /\ s \in HandlerStates
    BY <1>0, <1>2, <2>1 DEF RevokeSessions, HandlerStates
  <2>3. Become(h, s) /\ UNCHANGED << users, told, misreported >> /\ RevokeTokens(SessionsOf(p.subject))
        /\ leftIn' = leftIn \ {p.subject}
    BY <1>2, <2>1 DEF RevokeSessions, Advance, Become
  <2>4. Turns(h, s) /\ SameHistory(h)
    BY <1>0, <2>2, <2>3, BecomeTurns DEF SameHistory
  <2>5. Revokes(h, s, SessionsOf(p.subject))
    BY <1>0, <2>2, <2>3, <2>4, RevokeFacts, RevokedKeeps DEF Revokes
  <2> QED
    BY <2>5
<1> QED
  BY <1>1, <1>2

LEMMA RevokesKeeps ==
  ASSUME IInv, SessionsInv, NEW h \in Handlers, NEW s, NEW S, Revokes(h, s, S)
  PROVE  SessionsInv'
<1>0. /\ Turns(h, s) /\ s.stage = "auditing" /\ Registered' = Registered /\ UNCHANGED users
      /\ \A r \in Issued : KeepsFields(r)
      /\ Issued' = Issued /\ Unrevoked' = Unrevoked \ S
  BY DEF Revokes, Registered
<1>1. \A g \in Handlers : Fresh(g)'
  <2>1. \A v \in Registered : Calm(v)
    BY <1>0, CalmStep DEF Calm
  <2>2. \A g \in Handlers \ {h} : Fresh(g)'
    BY <1>0, <2>1, OthersFresh DEF Revokes, SameHistory
  <2>3. Fresh(h)'
    BY <1>0 DEF Turns, Fresh, SignsIn
  <2> QED
    BY <2>2, <2>3
<1>2. \A g \in Handlers : Unseen(g)'
  <2>1. \A g \in Handlers \ {h} : Unseen(g)'
    BY <1>0, OthersUnseen DEF Unrevoked
  <2>2. Unseen(h)'
    BY <1>0 DEF Turns, Unseen
  <2> QED
    BY <2>1, <2>2
<1>3. OneChanges' /\ OwnersRegistered'
  BY <1>0, OneStillChanges DEF SessionsInv, OwnersRegistered, KeepsFields
<1>4. \A r \in Unrevoked' : Trusted(r)'
  BY <1>0 DEF SessionsInv, Trusted, KeepsFields, Unrevoked
<1>5. ASSUME NEW v \in Registered' \ leftIn' PROVE InactiveOut(v)'
  <2>1. CASE handlers[h].stage = "revoking" /\ v = handlers[h].subject
    BY <1>0, <2>1 DEF Revokes, InactiveOut, SessionsOf, Unrevoked, KeepsFields
  <2>2. CASE ~ (handlers[h].stage = "revoking" /\ v = handlers[h].subject)
    <3>1. InactiveOut(v)
      BY <1>0, <1>5, <2>2 DEF Revokes, SessionsInv
    <3>2. Revoking(v) => Revoking(v)'
      BY <1>0, <2>2 DEF Turns, SameRequest, Revoking
    <3> QED
      BY <1>0, <3>1, <3>2 DEF InactiveOut, SessionsOf, Unrevoked, KeepsFields
  <2> QED
    BY <2>1, <2>2
<1> QED
  BY <1>1, <1>2, <1>3, <1>4, <1>5 DEF SessionsInv

-----------------------------------------------------------------------------
(***************************************************************************)
(* A new password.                                                         *)
(***************************************************************************)

\* Neither before nor after the step is h about to end a deactivation.
LEMMA SameRevoking ==
  ASSUME NEW h \in Handlers, NEW s, Turns(h, s),
         handlers[h].stage # "revoking", s.stage # "revoking", NEW u
  PROVE  Revoking(u)' <=> Revoking(u)
BY DEF Turns, SameRequest, Revoking

LEMMA StorePasswordKeeps ==
  ASSUME IInv, SessionsInv, NEW h \in Handlers, NEW password \in Passwords,
         StorePassword(h, password)
  PROVE  SessionsInv'
<1> DEFINE p == handlers[h]
<1>0. /\ TypeOK /\ Known(p) /\ p \in HandlerStates /\ p.stage = "loaded"
      /\ p.op \in PasswordOperations /\ UNCHANGED << users, sessions, leftIn >>
  BY DEF IInv, RequestsKnown, TypeOK, StorePassword
<1>1. PICK u : u = p.subject
  OBVIOUS
<1>2. u \in Registered /\ u \in UserIds /\ users[u] \in UserRows
  BY <1>0, <1>1 DEF Known, AboutRow, PasswordOperations, Registered, TypeOK
<1>3. PICK s : s = [ p EXCEPT !.stage = "changing",
                              !.row = [ users[u] EXCEPT !.password = password ],
                              !.seen = Unrevoked \cap SessionsOf(u) ]
  OBVIOUS
<1>4. /\ s.stage = "changing" /\ s.subject = u /\ s.seen = Unrevoked \cap SessionsOf(u)
      /\ s \in HandlerStates
  <2>1. Unrevoked \in SUBSET Tokens /\ [ users[u] EXCEPT !.password = password ] \in UserRows
    BY <1>2 DEF Unrevoked, Issued, UserRows
  <2> QED
    BY <1>0, <1>1, <1>3, <2>1 DEF HandlerStates
<1>5. Overtake(h, u, s) /\ ~ Locked(u)
  BY <1>1, <1>3 DEF StorePassword
<1>6. /\ Turns(h, s)
      /\ \A g \in Handlers \ {h} :
           handlers'[g].overtaken = (handlers[g].overtaken \/ g \in Pending(u))
  BY <1>0, <1>4, <1>5, OvertakeTurns
<1>7. /\ Registered' = Registered /\ Issued' = Issued /\ Unrevoked' = Unrevoked
      /\ \A v : SessionsOf(v)' = SessionsOf(v)
      /\ \A t \in Issued : KeepsFields(t)
  BY <1>0 DEF Registered, Issued, Unrevoked, SessionsOf, KeepsFields
<1>8. \A g \in Handlers : Fresh(g)'
  <2>1. ASSUME NEW v \in Registered, v # u PROVE Calm(v)
    BY <1>0, <1>4, <1>6, <2>1, CalmElsewhere DEF Calm
  <2>2. \A g \in Handlers \ {h} : Fresh(g)'
    BY <1>6, <1>7, <2>1, OthersFresh
  <2>3. Fresh(h)'
    BY <1>4, <1>6 DEF Turns, Fresh, SignsIn
  <2> QED
    BY <2>2, <2>3
<1>9. \A g \in Handlers : Unseen(g)'
  <2>1. \A g \in Handlers \ {h} : Unseen(g)'
    BY <1>6, <1>7, OthersUnseen DEF Unrevoked
  <2>2. handlers'[h] = s
    BY <1>6 DEF Turns
  <2>3. Unseen(h)'
    BY <1>4, <1>7, <2>2 DEF Unseen
  <2> QED
    BY <2>1, <2>3
<1>10. OneChanges'
  BY <1>4, <1>5, <1>6, OneStillChanges
<1>11. OwnersRegistered' /\ \A t \in Unrevoked' : Trusted(t)'
  BY <1>0, <1>7 DEF SessionsInv, OwnersRegistered, Trusted
<1>12. ASSUME NEW v \in Registered' \ leftIn' PROVE InactiveOut(v)'
  <2>1. InactiveOut(v) /\ (Revoking(v)' <=> Revoking(v))
    BY <1>0, <1>4, <1>6, <1>7, <1>12, SameRevoking DEF SessionsInv
  <2> QED
    BY <1>0, <1>7, <2>1 DEF InactiveOut
<1> QED
  BY <1>8, <1>9, <1>10, <1>11, <1>12 DEF SessionsInv

\* What a commit writes.
LEMMA CommitFacts ==
  ASSUME IInv, NEW h \in Handlers, CommitPassword(h)
  PROVE  /\ Turns(h, Idle) /\ SameHistory(h) /\ UNCHANGED << told, leftIn, misreported >>
         /\ handlers[h].stage = "changing" /\ handlers[h].subject \in Registered
         /\ Registered' = Registered /\ Issued' = Issued
         /\ Unrevoked' = Unrevoked \ handlers[h].seen
         /\ \A t \in Issued : KeepsFields(t)
         /\ \A u \in Registered :
              /\ users'[u].active = users[u].active /\ users'[u].role = users[u].role
              /\ u # handlers[h].subject => users'[u] = users[u]
<1>0. /\ TypeOK /\ RotationKeepsOwner /\ Known(handlers[h]) /\ handlers[h] \in HandlerStates
  BY DEF IInv, RequestsKnown, TypeOK
<1>1. /\ handlers[h].stage = "changing" /\ Finish(h) /\ RevokeTokens(handlers[h].seen)
      /\ UNCHANGED << told, leftIn, misreported >>
  BY DEF CommitPassword
<1>2. PICK u : u = handlers[h].subject
  OBVIOUS
<1>3. u \in Registered /\ u \in UserIds /\ users[u] \in UserRows /\ handlers[h].row \in UserRows
  BY <1>0, <1>1, <1>2 DEF Known, AboutRow, HoldsRow, Registered, TypeOK, HandlerStates
<1>4. PICK row : row = [ users[u] EXCEPT !.password = handlers[h].row.password ]
  OBVIOUS
<1>5. row \in UserRows /\ row.active = users[u].active /\ row.role = users[u].role
  BY <1>3, <1>4 DEF UserRows
<1>6. users' = [ users EXCEPT ![u] = row ]
  BY <1>0, <1>2, <1>3, <1>4 DEF CommitPassword, TypeOK
<1>7. users'[u] = row /\ \A v \in UserIds \ {u} : users'[v] = users[v]
  BY <1>0, <1>3, <1>6 DEF TypeOK
<1>8. Registered' = Registered
  BY <1>3, <1>5, <1>7, AccountsAssumption DEF Registered
<1>9. Turns(h, Idle) /\ SameHistory(h)
  BY <1>0, <1>1, IdleIsState, BecomeTurns DEF Finish, SameHistory
<1> QED
  BY <1>0, <1>1, <1>2, <1>3, <1>5, <1>7, <1>8, <1>9, RevokeFacts, RevokedKeeps DEF Registered

LEMMA CommitPasswordKeeps ==
  ASSUME IInv, SessionsInv, NEW h \in Handlers, CommitPassword(h)
  PROVE  SessionsInv'
<1> DEFINE p == handlers[h]
<1>1. PICK u : u = p.subject
  OBVIOUS
<1>2. /\ Turns(h, Idle) /\ Idle.stage = "idle" /\ SameHistory(h) /\ UNCHANGED leftIn
      /\ p.stage = "changing" /\ u \in Registered
      /\ Registered' = Registered /\ Issued' = Issued /\ Unrevoked' = Unrevoked \ p.seen
      /\ \A t \in Issued : KeepsFields(t)
      /\ \A v \in Registered :
           users'[v].active = users[v].active /\ (v # u => users'[v] = users[v])
  BY <1>1, CommitFacts DEF Idle
<1>3. \A g \in Handlers : Fresh(g)'
  <2>1. ASSUME NEW v \in Registered, v # u PROVE Calm(v)
    BY <1>2, <2>1, CalmStep DEF Calm
  <2>2. Ending(u)
    BY <1>1, <1>2 DEF Ending
  <2>3. \A g \in Handlers \ {h} : g \in Pending(u) => handlers'[g].overtaken
    BY <1>2, <2>2 DEF SessionsInv, Fresh, Pending, SameHistory
  <2>4. \A g \in Handlers \ {h} : Fresh(g)'
    BY <1>2, <2>1, <2>3, OthersFresh DEF SameHistory
  <2>5. Fresh(h)'
    BY <1>2 DEF Turns, Fresh, SignsIn
  <2> QED
    BY <2>4, <2>5
<1>4. \A g \in Handlers : Unseen(g)'
  <2>1. \A g \in Handlers \ {h} : Unseen(g)'
    BY <1>2, OthersUnseen DEF Unrevoked
  <2>2. Unseen(h)'
    BY <1>2 DEF Unseen, Turns
  <2> QED
    BY <2>1, <2>2
<1>5. OneChanges' /\ OwnersRegistered'
  BY <1>2, OneStillChanges DEF SessionsInv, OwnersRegistered, KeepsFields
<1>6. ASSUME NEW t \in Unrevoked' PROVE Trusted(t)'
  <2>1. t \in Unrevoked /\ t \notin p.seen /\ t \in Issued /\ Trusted(t) /\ KeepsFields(t)
    BY <1>2, <1>6 DEF SessionsInv, Unrevoked
  <2>2. CASE sessions[t].user = u
    BY <1>1, <1>2, <2>1, <2>2 DEF SessionsInv, Unseen, SessionsOf, KeepsFields, Trusted
  <2>3. CASE sessions[t].user # u
    BY <1>2, <2>1, <2>3 DEF SessionsInv, OwnersRegistered, KeepsFields, Trusted
  <2> QED
    BY <2>2, <2>3
<1>7. ASSUME NEW v \in Registered' \ leftIn' PROVE InactiveOut(v)'
  <2>1. InactiveOut(v) /\ (Revoking(v)' <=> Revoking(v))
    BY <1>2, <1>7, SameRevoking DEF SessionsInv
  <2> QED
    BY <1>2, <1>7, <2>1 DEF InactiveOut, SessionsOf, Unrevoked, KeepsFields
<1> QED
  BY <1>3, <1>4, <1>5, <1>6, <1>7 DEF SessionsInv

-----------------------------------------------------------------------------
(***************************************************************************)
(* Steps that write a user's row.                                          *)
(***************************************************************************)

\* The row of u is written, and h goes on to state s.
RowWrite(h, s, u) ==
  /\ UNCHANGED << sessions, told, leftIn >>
  /\ Turns(h, s) /\ ~ SignsIn(h) /\ handlers[h].stage \in {"authorized", "loaded"}
  /\ handlers[h].op \notin {"logout", "refresh", "login"}
  /\ u \in UserIds /\ s.subject = u /\ s.row = users'[u] /\ s.op = handlers[h].op
  /\ Registered' = Registered \cup {u}
  /\ \A v \in UserIds \ {u} : users'[v] = users[v]
  /\ u \in Registered => users'[u].password = users[u].password
  /\ s.op \in {"activate", "deactivate"} => u \in Registered /\ users'[u].role = users[u].role
  /\ Report(u, s.op \notin {"activate", "deactivate"})
  /\ \/ /\ s.stage = "auditing" /\ SameHistory(h)
        /\ u \in Registered /\ users[u].active => users'[u].active
     \/ /\ s.stage = "revoking"
        /\ \A g \in Handlers \ {h} :
             handlers'[g].overtaken = (handlers[g].overtaken \/ g \in Pending(u))

LEMMA RowWriteKeeps ==
  ASSUME IInv, SessionsInv, NEW h \in Handlers, NEW s, NEW u, RowWrite(h, s, u)
  PROVE  SessionsInv'
<1>0. /\ Turns(h, s) /\ s.subject = u /\ handlers[h].stage \in {"authorized", "loaded"}
      /\ s.stage \in {"auditing", "revoking"} /\ UNCHANGED << sessions, leftIn >>
      /\ Registered \subseteq Registered' /\ Issued' = Issued /\ Unrevoked' = Unrevoked
      /\ \A v : SessionsOf(v)' = SessionsOf(v)
      /\ \A v \in Registered : v # u => users'[v] = users[v]
      /\ u \in Registered => users'[u].password = users[u].password
      /\ \A t \in Issued : KeepsFields(t) /\ sessions[t].user \in Registered
  BY DEF RowWrite, Registered, Issued, Unrevoked, SessionsOf, KeepsFields, SessionsInv,
         OwnersRegistered
<1>1. \A g \in Handlers : Fresh(g)'
  <2>1. ASSUME NEW v \in Registered, v # u PROVE Calm(v)
    BY <1>0, <2>1, CalmElsewhere DEF Calm
  <2>2. (u \in Registered => Calm(u)) \/ \A g \in Handlers \ {h} : g \in Pending(u) => handlers'[g].overtaken
    BY <1>0, CalmStep DEF RowWrite, Calm
  <2>3. \A g \in Handlers \ {h} : handlers[g].overtaken => handlers'[g].overtaken
    BY DEF RowWrite, SameHistory
  <2>4. \A g \in Handlers \ {h} : Fresh(g)'
    BY <1>0, <2>1, <2>2, <2>3, OthersFresh
  <2>5. Fresh(h)'
    BY <1>0 DEF Turns, Fresh, SignsIn
  <2> QED
    BY <2>4, <2>5
<1>2. \A g \in Handlers : Unseen(g)'
  <2>1. \A g \in Handlers \ {h} : Unseen(g)'
    BY <1>0, OthersUnseen DEF Unrevoked
  <2>2. Unseen(h)'
    BY <1>0 DEF Unseen, Turns
  <2> QED
    BY <2>1, <2>2
<1>3. OneChanges' /\ OwnersRegistered'
  BY <1>0, OneStillChanges DEF SessionsInv, OwnersRegistered
<1>4. \A t \in Unrevoked' : Trusted(t)'
  BY <1>0 DEF SessionsInv, Trusted, Unrevoked
<1>5. ASSUME NEW v \in Registered' \ leftIn' PROVE InactiveOut(v)'
  <2>1. CASE v # u
    <3>1. v \in Registered /\ InactiveOut(v)
      BY <1>0, <1>5, <2>1 DEF RowWrite, SessionsInv
    <3>2. (Revoking(v)' <=> Revoking(v)) /\ users'[v] = users[v]
      BY <1>0, <2>1, <3>1, CalmElsewhere
    <3> QED
      BY <1>0, <3>1, <3>2 DEF InactiveOut
  <2>2. CASE v = u /\ s.stage = "revoking"
    BY <1>0, <2>2 DEF InactiveOut, Revoking, Turns
  <2>3. CASE v = u /\ s.stage = "auditing" /\ u \in Registered
    <3>1. InactiveOut(u) /\ (Revoking(u)' <=> Revoking(u))
      BY <1>0, <1>5, <2>3, SameRevoking DEF SessionsInv
    <3> QED
      BY <1>0, <2>3, <3>1 DEF RowWrite, InactiveOut
  <2>4. CASE v = u /\ u \notin Registered
    BY <1>0, <2>4 DEF InactiveOut, SessionsOf
  <2> QED
    BY <1>0, <2>1, <2>2, <2>3, <2>4
<1> QED
  BY <1>1, <1>2, <1>3, <1>4, <1>5 DEF SessionsInv

LEMMA RowWriteForms ==
  ASSUME IInv, NEW h \in Handlers,
         \/ \E u \in UserIds, row \in UserRows : CreateUser(h, u, row)
         \/ \E role \in UserRoles : WriteRole(h, role)
         \/ WriteActive(h)
  PROVE  \E s, u : RowWrite(h, s, u)
<1> DEFINE p == handlers[h]
<1>0. /\ TypeOK /\ Known(p) /\ p \in HandlerStates
      /\ UNCHANGED << sessions, told, leftIn >>
  BY DEF IInv, RequestsKnown, TypeOK, CreateUser, WriteRole, WriteActive
<1>1. ASSUME NEW u \in UserIds, NEW row \in UserRows, users' = [ users EXCEPT ![u] = row ]
      PROVE  /\ users'[u] = row /\ \A v \in UserIds \ {u} : users'[v] = users[v]
             /\ Registered' = Registered \cup {u}
  <2>1. users'[u] = row /\ \A v \in UserIds \ {u} : users'[v] = users[v]
    BY <1>0, <1>1 DEF TypeOK
  <2> QED
    BY <2>1, AccountsAssumption DEF Registered
<1>2. ASSUME NEW u \in UserIds, NEW row \in UserRows, CreateUser(h, u, row)
      PROVE  \E s, v : RowWrite(h, s, v)
  <2>1. PICK s : s = [ p EXCEPT !.stage = "auditing", !.subject = u, !.row = row ]
    OBVIOUS
  <2>2. /\ s.stage = "auditing" /\ s.subject = u /\ s.row = row /\ s.op = "createUser"
        /\ p.stage = "authorized" /\ p.op = "createUser" /\ s \in HandlerStates
    BY <1>0, <1>2, <2>1 DEF CreateUser, At, HandlerStates
  <2>3. Become(h, s) /\ u \notin Registered /\ Report(u, TRUE) /\ users' = [ users EXCEPT ![u] = row ]
    BY <1>2, <2>1 DEF CreateUser
  <2>4. Turns(h, s) /\ SameHistory(h)
    BY <1>0, <2>2, <2>3, BecomeTurns DEF SameHistory
  <2>5. (s.op \notin {"activate", "deactivate"}) = TRUE
    BY <2>2
  <2>6. RowWrite(h, s, u)
    BY <1>0, <1>1, <2>2, <2>3, <2>4, <2>5 DEF RowWrite, SignsIn
  <2> QED
    BY <2>6
<1>3. ASSUME NEW role \in UserRoles, WriteRole(h, role)
      PROVE  \E s, v : RowWrite(h, s, v)
  <2>1. PICK u, row : u = p.subject /\ row = [ users[u] EXCEPT !.role = role ]
    OBVIOUS
  <2>2. PICK s : s = [ p EXCEPT !.stage = "auditing", !.row = row ]
    OBVIOUS
  <2>3. u \in Registered /\ u \in UserIds /\ users[u] \in UserRows
    BY <1>0, <1>3, <2>1 DEF WriteRole, At, Known, AboutRow, Registered, TypeOK
  <2>4. row \in UserRows /\ row.password = users[u].password /\ row.active = users[u].active
    BY <2>1, <2>3 DEF UserRows
  <2>5. /\ s.stage = "auditing" /\ s.subject = u /\ s.row = row /\ s.op = "updateUser"
        /\ p.stage = "loaded" /\ p.op = "updateUser" /\ s \in HandlerStates
    BY <1>0, <1>3, <2>1, <2>2, <2>4 DEF WriteRole, At, HandlerStates
  <2>6. Become(h, s) /\ Report(u, TRUE) /\ users' = [ users EXCEPT ![u] = row ]
    BY <1>3, <2>1, <2>2 DEF WriteRole
  <2>7. Turns(h, s) /\ SameHistory(h)
    BY <1>0, <2>5, <2>6, BecomeTurns DEF SameHistory
  <2>8. (s.op \notin {"activate", "deactivate"}) = TRUE
    BY <2>5
  <2>9. RowWrite(h, s, u)
    BY <1>0, <1>1, <2>3, <2>4, <2>5, <2>6, <2>7, <2>8 DEF RowWrite, SignsIn
  <2> QED
    BY <2>9
<1>4. ASSUME WriteActive(h)
      PROVE  \E s, v : RowWrite(h, s, v)
  <2>0. p.stage = "loaded" /\ p.op \in {"activate", "deactivate"} /\ (p.op = "activate") \in BOOLEAN
    BY <1>4 DEF WriteActive
  <2>1. PICK u, row : u = p.subject /\ row = [ users[u] EXCEPT !.active = (p.op = "activate") ]
    OBVIOUS
  <2>3. u \in Registered /\ u \in UserIds /\ users[u] \in UserRows
    BY <1>0, <2>0, <2>1 DEF Known, AboutRow, Registered, TypeOK
  <2>4. row \in UserRows /\ row.password = users[u].password /\ row.role = users[u].role
    BY <2>0, <2>1, <2>3 DEF UserRows
  <2>6. Report(u, FALSE) /\ users' = [ users EXCEPT ![u] = row ]
    BY <1>4, <2>1 DEF WriteActive
  <2>7. CASE row.active
    <3>1. PICK s : s = [ p EXCEPT !.stage = "auditing", !.row = row ]
      OBVIOUS
    <3>2. /\ s.stage = "auditing" /\ s.subject = u /\ s.row = row /\ s.op = p.op
          /\ s \in HandlerStates
      BY <1>0, <2>1, <2>4, <3>1 DEF HandlerStates
    <3>3. Become(h, s)
      BY <1>4, <2>1, <2>7, <3>1 DEF WriteActive
    <3>4. Turns(h, s) /\ SameHistory(h)
      BY <1>0, <3>2, <3>3, BecomeTurns DEF SameHistory
    <3>5. (s.op \notin {"activate", "deactivate"}) = FALSE
      BY <2>0, <3>2
    <3>6. RowWrite(h, s, u)
      BY <1>0, <1>1, <2>0, <2>3, <2>4, <2>6, <2>7, <3>2, <3>4, <3>5 DEF RowWrite, SignsIn
    <3> QED
      BY <3>6
  <2>8. CASE ~ row.active
    <3>1. PICK s : s = [ p EXCEPT !.stage = "revoking", !.row = row ]
      OBVIOUS
    <3>2. /\ s.stage = "revoking" /\ s.subject = u /\ s.row = row /\ s.op = p.op
          /\ s \in HandlerStates
      BY <1>0, <2>1, <2>4, <3>1 DEF HandlerStates
    <3>3. Overtake(h, u, s)
      BY <1>4, <2>1, <2>8, <3>1 DEF WriteActive
    <3>4. /\ Turns(h, s)
          /\ \A g \in Handlers \ {h} :
               handlers'[g].overtaken = (handlers[g].overtaken \/ g \in Pending(u))
      BY <1>0, <3>2, <3>3, OvertakeTurns
    <3>5. (s.op \notin {"activate", "deactivate"}) = FALSE
      BY <2>0, <3>2
    <3>6. RowWrite(h, s, u)
      BY <1>0, <1>1, <2>0, <2>3, <2>4, <2>6, <3>2, <3>4, <3>5 DEF RowWrite, SignsIn
    <3> QED
      BY <3>6
  <2> QED
    BY <2>7, <2>8
<1> QED
  BY <1>2, <1>3, <1>4

-----------------------------------------------------------------------------
(***************************************************************************)
(* The invariant of the sessions holds, and what follows.                  *)
(***************************************************************************)
LEMMA SessionsAtFirst == Init => SessionsInv
<1> SUFFICES ASSUME Init PROVE SessionsInv
  OBVIOUS
<1>1. \A h \in Handlers : handlers[h].stage = "idle"
  BY DEF Init, Idle
<1>2. Issued = {}
  BY DEF Init, Issued
<1> QED
  BY <1>1, <1>2 DEF SessionsInv, Fresh, SignsIn, Unseen, OneChanges, OwnersRegistered, Unrevoked,
                    InactiveOut

LEMMA SessionsStep == IInv /\ SessionsInv /\ [Next]_vars => SessionsInv'
<1> SUFFICES ASSUME IInv, SessionsInv, [Next]_vars
             PROVE  SessionsInv'
  OBVIOUS
<1>1. CASE UNCHANGED vars
  <2>1. Waits
    BY <1>1 DEF vars, Waits, Issued, Unrevoked, KeepsFields
  <2> QED
    BY <2>1, WaitsKeeps
<1>2. CASE Next
  <2>1. CASE OtherStep
    BY <2>1, OtherWaits, WaitsKeeps
  <2>2. ASSUME NEW h \in Handlers, NEW t \in Tokens, FinishLogin(h, t) \/ FinishRefresh(h, t)
        PROVE  SessionsInv'
    BY <2>2, IssueSteps, IssuesKeeps
  <2>3. ASSUME NEW h \in Handlers,
               (\E t \in Tokens \cup {None} : Logout(h, t)) \/ RevokeSessions(h)
        PROVE  SessionsInv'
    BY <2>3, RevokeForms, RevokesKeeps
  <2>4. ASSUME NEW h \in Handlers,
               \/ \E u \in UserIds, row \in UserRows : CreateUser(h, u, row)
               \/ \E role \in UserRoles : WriteRole(h, role)
               \/ WriteActive(h)
        PROVE  SessionsInv'
    BY <2>4, RowWriteForms, RowWriteKeeps
  <2> QED
    BY <1>2, <2>1, <2>2, <2>3, <2>4, NextCases, QuietSteps, StorePasswordKeeps, CommitPasswordKeeps
<1> QED
  BY <1>1, <1>2

LEMMA SessionsInvariance == Spec => [](IInv /\ SessionsInv)
<1>1. Init => IInv /\ SessionsInv
  BY InvariantHoldsAtFirst, SessionsAtFirst
<1>2. IInv /\ SessionsInv /\ [Next]_vars => (IInv /\ SessionsInv)'
  BY InvariantIsKept, SessionsStep
<1> QED
  BY <1>1, <1>2, PTL DEF Spec

\* An unrevoked session was opened with the password its user has now, or by a
\* login or a refresh that a new password or a deactivation overtook, for any
\* number of requests under way and failing.
THEOREM SessionsKnowPasswordAlways == Spec => []SessionsKnowPassword
<1>1. IInv /\ SessionsInv => SessionsKnowPassword
  BY DEF SessionsInv, SessionsKnowPassword, Trusted
<1> QED
  BY <1>1, SessionsInvariance, PTL

\* A deactivated user keeps an unrevoked session only until the deactivation
\* ends them, or after it failed before doing so, or from a login or a refresh
\* that it overtook.
THEOREM DeactivatedSignedOutAlways == Spec => []DeactivatedSignedOut
<1>1. IInv /\ SessionsInv => DeactivatedSignedOut
  BY DEF SessionsInv, DeactivatedSignedOut, InactiveOut, Revoking
<1> QED
  BY <1>1, SessionsInvariance, PTL

-----------------------------------------------------------------------------
(***************************************************************************)
(* The audit entries of users.                                             *)
(***************************************************************************)

\* One request at most is to add an entry about u, and it will set it right.
Told(u) ==
  /\ \A g, h \in Handlers : Writes(g, u) /\ Writes(h, u) => g = h
  /\ \A h \in Handlers : Writes(h, u) =>
       /\ handlers[h].row.role = users[u].role /\ handlers[h].row.active = users[u].active
       /\ handlers[h].op \in {"activate", "deactivate"} => told[u].role = users[u].role
  /\ (\A h \in Handlers : ~ Writes(h, u)) =>
       told[u].role = users[u].role /\ told[u].active = users[u].active

EntriesInv == \A u \in Registered \ misreported : Told(u)

\* The entries about u, its row and the requests that write them stay.
LEMMA ToldKept ==
  ASSUME NEW u, Told(u), UNCHANGED told,
         users'[u].role = users[u].role, users'[u].active = users[u].active,
         \A g \in Handlers :
           /\ Writes(g, u)' <=> Writes(g, u)
           /\ Writes(g, u) => /\ handlers'[g].row = handlers[g].row
                              /\ handlers'[g].op = handlers[g].op
  PROVE  Told(u)'
BY DEF Told

\* Request h, which has no entry to come, takes a step.
LEMMA SilentKeeps ==
  ASSUME EntriesInv, NEW h \in Handlers, NEW s, Turns(h, s), UNCHANGED << told, misreported >>,
         Registered' = Registered,
         \A u \in Registered : users'[u].role = users[u].role /\ users'[u].active = users[u].active,
         handlers[h].stage \in {"revoking", "auditing"} => handlers[h].op = "logout",
         s.stage \in {"revoking", "auditing"} => s.op = "logout"
  PROVE  EntriesInv'
<1> SUFFICES ASSUME NEW u \in Registered, u \notin misreported
             PROVE  Told(u)'
  BY DEF EntriesInv
<1>1. ASSUME NEW g \in Handlers
      PROVE  /\ Writes(g, u)' <=> Writes(g, u)
             /\ Writes(g, u) => /\ handlers'[g].row = handlers[g].row
                                /\ handlers'[g].op = handlers[g].op
  <2>1. CASE g = h
    BY <2>1 DEF Turns, Writes
  <2>2. CASE g # h
    BY <2>2 DEF Turns, SameRequest, Writes
  <2> QED
    BY <2>1, <2>2
<1>2. Told(u)
  BY DEF EntriesInv
<1> QED
  BY <1>1, <1>2, ToldKept

\* Request h reads, answers or starts its transaction.
LEMMA MoveForms ==
  ASSUME IInv, NEW h \in Handlers,
         \/ \E op \in AllOperations, u \in UserIds : Authorize(h, op, u)
         \/ \E u \in UserIds : BeginLogin(h, u) \/ LoadUser(h, u)
         \/ \E t \in Tokens : BeginRefresh(h, t)
         \/ \E password \in Passwords : CheckOwnPassword(h, password) \/ StorePassword(h, password)
         \/ CountAdmins(h) \/ AuditLogout(h) \/ Refuse(h)
  PROVE  /\ Turns(h, handlers'[h])
         /\ handlers'[h].stage \notin {"revoking", "auditing"}
         /\ At(h, "loaded", "refresh")' => \E t \in Tokens : BeginRefresh(h, t)
<1> DEFINE p == handlers[h]
<1>0. TypeOK /\ p \in HandlerStates /\ Known(p)
  BY DEF IInv, TypeOK, RequestsKnown
<1>1. IInv'
  BY MoveSteps, MovesKeeps
<1>2. ASSUME NEW s, Become(h, s), s.stage \notin {"revoking", "auditing"},
             s.stage = "loaded" /\ s.op = "refresh" => \E t \in Tokens : BeginRefresh(h, t)
      PROVE  /\ handlers'[h].stage \notin {"revoking", "auditing"}
             /\ At(h, "loaded", "refresh")' => \E t \in Tokens : BeginRefresh(h, t)
             /\ \A g \in Handlers \ {h} : SameRequest(g)
  <2>1. handlers'[h] = s /\ \A g \in Handlers \ {h} : SameRequest(g)
    BY <1>0, <1>2 DEF Become, TypeOK, SameRequest
  <2> QED
    BY <1>2, <2>1 DEF At
<1> SUFFICES /\ handlers'[h].stage \notin {"revoking", "auditing"}
             /\ At(h, "loaded", "refresh")' => \E t \in Tokens : BeginRefresh(h, t)
             /\ \A g \in Handlers \ {h} : SameRequest(g)
  BY <1>1 DEF Turns, IInv, TypeOK
<1>3. CASE Finish(h)
  BY <1>2, <1>3 DEF Finish, Idle
<1>4. ASSUME NEW op \in AllOperations, NEW u \in UserIds, Authorize(h, op, u)
      PROVE  \E s : Become(h, s) /\ s.stage = "authorized"
  <2>1. PICK s : s = [ Idle EXCEPT !.stage = "authorized", !.op = op, !.actor = u ]
    OBVIOUS
  <2>2. s.stage = "authorized"
    BY <2>1 DEF Idle
  <2> QED
    BY <1>4, <2>1, <2>2 DEF Authorize
<1>5. ASSUME NEW u \in UserIds, BeginLogin(h, u)
      PROVE  \E s : Become(h, s) /\ s.stage = "loaded" /\ s.op = "login"
  <2>1. PICK s : s = [ Idle EXCEPT !.stage = "loaded", !.op = "login", !.subject = u,
                                   !.row = users[u], !.overtaken = Ending(u) ]
    OBVIOUS
  <2>2. s.stage = "loaded" /\ s.op = "login"
    BY <2>1 DEF Idle
  <2> QED
    BY <1>5, <2>1, <2>2 DEF BeginLogin
<1>6. ASSUME NEW t \in Tokens, BeginRefresh(h, t)
      PROVE  \E s : Become(h, s) /\ s.stage = "loaded"
  <2>1. PICK s : s = [ Idle EXCEPT !.stage = "loaded", !.op = "refresh", !.token = t,
                                   !.subject = sessions[t].user,
                                   !.overtaken = Ending(sessions[t].user) ]
    OBVIOUS
  <2>2. s.stage = "loaded"
    BY <2>1 DEF Idle
  <2> QED
    BY <1>6, <2>1, <2>2 DEF BeginRefresh
<1>7. ASSUME NEW u \in UserIds, LoadUser(h, u)
      PROVE  \E s : Become(h, s) /\ s.stage \in {"loaded", "counting"} /\ s.op # "refresh"
  <2>1. PICK stage \in {"counting", "loaded"} :
          Become(h, [ p EXCEPT !.stage = stage, !.subject = u ])
    BY <1>7 DEF LoadUser
  <2>2. PICK s : s = [ p EXCEPT !.stage = stage, !.subject = u ]
    OBVIOUS
  <2>3. s.stage = stage /\ s.op = p.op
    BY <1>0, <2>2 DEF HandlerStates
  <2> QED
    BY <1>7, <2>1, <2>2, <2>3 DEF LoadUser, RowOperations
<1>8. ASSUME NEW password \in Passwords, CheckOwnPassword(h, password)
      PROVE  Finish(h) \/ \E s : Become(h, s) /\ s.stage = "loaded" /\ s.op = "changePassword"
  <2>1. PICK s : s = [ p EXCEPT !.stage = "loaded", !.subject = p.actor ]
    OBVIOUS
  <2>2. s.stage = "loaded" /\ s.op = p.op
    BY <1>0, <2>1 DEF HandlerStates
  <2> QED
    BY <1>8, <2>1, <2>2 DEF CheckOwnPassword, At
<1>9. ASSUME CountAdmins(h)
      PROVE  \E s : Become(h, s) /\ s.stage = "loaded" /\ s.op = "deactivate"
  <2>1. PICK s : s = [ p EXCEPT !.stage = "loaded" ]
    OBVIOUS
  <2>2. s.stage = "loaded" /\ s.op = "deactivate"
    BY <1>0, <1>9, <2>1 DEF CountAdmins, Known, HandlerStates
  <2> QED
    BY <1>9, <2>1, <2>2 DEF CountAdmins, Advance, Become
<1>10. ASSUME NEW password \in Passwords, StorePassword(h, password)
       PROVE  handlers'[h].stage = "changing" /\ \A g \in Handlers \ {h} : SameRequest(g)
  <2>1. PICK u : u = p.subject
    OBVIOUS
  <2>2. PICK s : s = [ p EXCEPT !.stage = "changing",
                                !.row = [ users[u] EXCEPT !.password = password ],
                                !.seen = Unrevoked \cap SessionsOf(u) ]
    OBVIOUS
  <2>3. s.stage = "changing"
    BY <1>0, <2>2 DEF HandlerStates
  <2>4. Overtake(h, u, s)
    BY <1>10, <2>1, <2>2 DEF StorePassword
  <2>5. handlers'[h] = s
    BY <2>4 DEF Overtake
  <2>6. ASSUME NEW g \in Handlers \ {h} PROVE SameRequest(g)
    <3>1. handlers'[g] = handlers[g] \/ handlers'[g] = [ handlers[g] EXCEPT !.overtaken = TRUE ]
      BY <2>4 DEF Overtake
    <3> QED
      BY <1>0, <3>1 DEF SameRequest, TypeOK, HandlerStates
  <2> QED
    BY <2>3, <2>5, <2>6
<1> QED
  BY <1>2, <1>3, <1>4, <1>5, <1>6, <1>7, <1>8, <1>9, <1>10 DEF AuditLogout, Refuse, At

LEMMA MoveEntries ==
  ASSUME IInv, EntriesInv, NEW h \in Handlers,
         \/ \E op \in AllOperations, u \in UserIds : Authorize(h, op, u)
         \/ \E u \in UserIds : BeginLogin(h, u) \/ LoadUser(h, u)
         \/ \E t \in Tokens : BeginRefresh(h, t)
         \/ \E password \in Passwords : CheckOwnPassword(h, password) \/ StorePassword(h, password)
         \/ CountAdmins(h) \/ AuditLogout(h) \/ Refuse(h)
  PROVE  EntriesInv'
<1>1. UNCHANGED << users, told, misreported >> /\ Registered' = Registered
  BY DEF Authorize, BeginLogin, LoadUser, BeginRefresh, CheckOwnPassword, StorePassword,
         CountAdmins, AuditLogout, Refuse, Registered
<1>2. handlers[h].stage \in {"revoking", "auditing"} => handlers[h].op = "logout"
  <2>1. handlers[h] = Idle => handlers[h].stage = "idle"
    BY DEF Idle
  <2>2. CASE AuditLogout(h)
    BY <2>2 DEF AuditLogout, At
  <2>3. CASE ~ AuditLogout(h)
    BY <2>1, <2>3 DEF Authorize, BeginLogin, LoadUser, BeginRefresh, CheckOwnPassword,
                      StorePassword, CountAdmins, Refuse, At
  <2> QED
    BY <2>2, <2>3
<1> QED
  BY <1>1, <1>2, MoveForms, SilentKeeps

LEMMA RowWriteEntries ==
  ASSUME IInv, EntriesInv, NEW h \in Handlers, NEW s, NEW u, RowWrite(h, s, u)
  PROVE  EntriesInv'
<1>0. /\ Turns(h, s) /\ s.subject = u /\ s.row = users'[u] /\ u \in UserIds
      /\ s.stage \in {"auditing", "revoking"} /\ s.op # "logout"
      /\ UNCHANGED told /\ Registered' = Registered \cup {u}
      /\ s.op \in {"activate", "deactivate"} => u \in Registered /\ users'[u].role = users[u].role
  BY DEF RowWrite
<1>1. \A v : ~ Writes(h, v) /\ (Writes(h, v)' <=> v = u)
  BY <1>0 DEF RowWrite, Writes, Turns
<1>2. ASSUME NEW g \in Handlers, g # h, NEW v
      PROVE  /\ Writes(g, v)' <=> Writes(g, v)
             /\ handlers'[g].row = handlers[g].row /\ handlers'[g].op = handlers[g].op
  BY <1>0, <1>2 DEF Writes, Turns, SameRequest
<1>3. ASSUME NEW v \in Registered', v \notin misreported', v # u
      PROVE  Told(v)'
  <2>1. v \in Registered /\ v \notin misreported /\ users'[v] = users[v]
    BY <1>0, <1>3 DEF RowWrite, Report, Registered
  <2>2. \A g \in Handlers :
          /\ Writes(g, v)' <=> Writes(g, v)
          /\ Writes(g, v) => /\ handlers'[g].row = handlers[g].row
                             /\ handlers'[g].op = handlers[g].op
    BY <1>1, <1>2, <1>3
  <2>3. Told(v)
    BY <2>1 DEF EntriesInv
  <2> QED
    BY <1>0, <2>1, <2>2, <2>3, ToldKept
<1>4. ASSUME u \notin misreported'
      PROVE  Told(u)'
  <2>1. \A g \in Handlers : ~ Writes(g, u)
    BY <1>4 DEF RowWrite, Report
  <2>2. \A g \in Handlers : Writes(g, u)' <=> g = h
    BY <1>1, <1>2, <2>1
  <2>3. s.op \in {"activate", "deactivate"} => told[u].role = users[u].role
    <3> SUFFICES ASSUME s.op \in {"activate", "deactivate"} PROVE told[u].role = users[u].role
      OBVIOUS
    <3>1. (s.op \notin {"activate", "deactivate"}) = FALSE
      OBVIOUS
    <3>2. misreported' = misreported
      BY <2>1, <3>1 DEF RowWrite, Report
    <3>3. Told(u)
      BY <1>0, <1>4, <3>2 DEF EntriesInv
    <3> QED
      BY <2>1, <3>3 DEF Told
  <2>4. handlers'[h] = s
    BY <1>0 DEF Turns
  <2> QED
    BY <1>0, <2>2, <2>3, <2>4 DEF Told
<1> QED
  BY <1>3, <1>4 DEF EntriesInv

LEMMA AuditEntries ==
  ASSUME IInv, EntriesInv, NEW h \in Handlers, AuditUser(h)
  PROVE  EntriesInv'
<1> DEFINE p == handlers[h]
<1>0. /\ TypeOK /\ Known(p) /\ p \in HandlerStates /\ p.stage = "auditing" /\ p.op # "logout"
      /\ UNCHANGED << users, misreported >> /\ Registered' = Registered /\ Finish(h)
  BY DEF IInv, RequestsKnown, TypeOK, AuditUser, Registered
<1>1. PICK u : u = p.subject
  OBVIOUS
<1>2. u \in Registered /\ u \in UserIds /\ p.row \in UserRows /\ told[u] \in Claims
  BY <1>0, <1>1 DEF Known, AboutRow, HoldsRow, Registered, TypeOK, HandlerStates
<1>3. PICK new : new = IF p.op \in {"activate", "deactivate"}
                         THEN [ told[u] EXCEPT !.active = ClaimsOf(p.row).active ]
                         ELSE ClaimsOf(p.row)
  OBVIOUS
<1>4. /\ new.active = p.row.active
      /\ p.op \in {"activate", "deactivate"} => new.role = told[u].role
      /\ p.op \notin {"activate", "deactivate"} => new.role = p.row.role
  BY <1>2, <1>3 DEF ClaimsOf, Claims
<1>5. told' = [ told EXCEPT ![u] = new ]
  BY <1>0, <1>1, <1>2, <1>3 DEF AuditUser, TypeOK
<1>6. told'[u] = new /\ \A v \in UserIds \ {u} : told'[v] = told[v]
  BY <1>0, <1>2, <1>5 DEF TypeOK
<1>7. Turns(h, Idle) /\ \A g \in Handlers \ {h} : handlers'[g] = handlers[g]
  BY <1>0, IdleIsState, BecomeTurns DEF Finish
<1>8. \A v : (Writes(h, v) <=> v = u) /\ ~ Writes(h, v)'
  BY <1>0, <1>1, <1>7 DEF Writes, Turns, Idle
<1>9. \A g \in Handlers \ {h} : \A v : Writes(g, v)' <=> Writes(g, v)
  BY <1>7 DEF Writes
<1>10. ASSUME NEW v \in Registered, v \notin misreported, v # u
       PROVE  Told(v)'
  <2>1. Told(v) /\ told'[v] = told[v]
    BY <1>6, <1>10 DEF EntriesInv, Registered
  <2>2. \A g \in Handlers : (Writes(g, v)' <=> Writes(g, v)) /\ (Writes(g, v) => g # h)
    BY <1>8, <1>9, <1>10
  <2> QED
    BY <1>0, <1>7, <2>1, <2>2 DEF Told
<1>11. ASSUME u \notin misreported
       PROVE  Told(u)'
  <2>1. Told(u) /\ Writes(h, u)
    BY <1>2, <1>8, <1>11 DEF EntriesInv
  <2>2. \A g \in Handlers : ~ Writes(g, u)'
    BY <1>8, <1>9, <2>1 DEF Told
  <2> QED
    BY <1>0, <1>4, <1>6, <2>1, <2>2 DEF Told
<1> QED
  BY <1>0, <1>10, <1>11 DEF EntriesInv

LEMMA AbortEntries ==
  ASSUME IInv, EntriesInv, NEW h \in Handlers, Abort(h)
  PROVE  EntriesInv'
<1>0. /\ TypeOK /\ UNCHANGED << users, told >> /\ Registered' = Registered /\ Finish(h)
  BY DEF IInv, Abort, Registered
<1>1. Turns(h, Idle) /\ \A g \in Handlers \ {h} : handlers'[g] = handlers[g]
  BY <1>0, IdleIsState, BecomeTurns DEF Finish
<1>2. ASSUME NEW u \in Registered, u \notin misreported'
      PROVE  Told(u)'
  <2>1. u \notin misreported /\ ~ Writes(h, u)
    BY <1>2 DEF Abort, Registered
  <2>2. ~ Writes(h, u)'
    BY <1>1 DEF Writes, Turns, Idle
  <2>3. ASSUME NEW g \in Handlers
        PROVE  /\ Writes(g, u)' <=> Writes(g, u)
               /\ Writes(g, u) => /\ handlers'[g].row = handlers[g].row
                                  /\ handlers'[g].op = handlers[g].op
    <3>1. CASE g = h
      BY <2>1, <2>2, <3>1
    <3>2. CASE g # h
      BY <1>1, <3>2 DEF Writes
    <3> QED
      BY <3>1, <3>2
  <2>4. Told(u)
    BY <2>1 DEF EntriesInv
  <2> QED
    BY <1>0, <2>3, <2>4, ToldKept
<1> QED
  BY <1>0, <1>2 DEF EntriesInv

LEMMA RevokesEntries ==
  ASSUME EntriesInv, NEW h \in Handlers, NEW s, NEW S, Revokes(h, s, S), Known(handlers[h])
  PROVE  EntriesInv'
<1>0. /\ Turns(h, s) /\ UNCHANGED << users, told, misreported >> /\ Registered' = Registered
  BY DEF Revokes, Registered
<1> SUFFICES ASSUME NEW u \in Registered, u \notin misreported
             PROVE  Told(u)'
  BY <1>0 DEF EntriesInv
<1>1. ASSUME NEW g \in Handlers
      PROVE  /\ Writes(g, u)' <=> Writes(g, u)
             /\ Writes(g, u) => /\ handlers'[g].row = handlers[g].row
                                /\ handlers'[g].op = handlers[g].op
  <2>1. CASE g = h
    BY <2>1 DEF Revokes, Turns, Writes, Known
  <2>2. CASE g # h
    BY <1>0, <2>2 DEF Turns, SameRequest, Writes
  <2> QED
    BY <2>1, <2>2
<1>2. Told(u)
  BY DEF EntriesInv
<1> QED
  BY <1>0, <1>1, <1>2, ToldKept

LEMMA EntriesStep == IInv /\ EntriesInv /\ [Next]_vars => EntriesInv'
<1> SUFFICES ASSUME IInv, EntriesInv, [Next]_vars
             PROVE  EntriesInv'
  OBVIOUS
<1>1. CASE Waits
  BY <1>1 DEF Waits, EntriesInv, Told, Writes, Registered
<1>2. CASE UNCHANGED vars
  BY <1>2 DEF vars, EntriesInv, Told, Writes, Registered
<1>3. CASE Next
  <2>1. CASE OtherStep
    BY <1>1, <2>1, OtherWaits
  <2>2. ASSUME NEW h \in Handlers, NEW t \in Tokens, FinishLogin(h, t) \/ FinishRefresh(h, t)
        PROVE  EntriesInv'
    <3>1. Issues(h, t)
      BY <2>2, IssueSteps
    <3>2. /\ Turns(h, Idle) /\ UNCHANGED << users, told, misreported >>
          /\ handlers[h].stage = "loaded" /\ Idle.stage = "idle"
      BY <3>1 DEF Issues, SignsIn, Idle
    <3> QED
      BY <3>2, SilentKeeps DEF Registered
  <2>3. ASSUME NEW h \in Handlers, CommitPassword(h)
        PROVE  EntriesInv'
    <3>1. Idle.stage = "idle"
      BY DEF Idle
    <3> QED
      BY <2>3, <3>1, CommitFacts, SilentKeeps
  <2>4. ASSUME NEW h \in Handlers,
               (\E t \in Tokens \cup {None} : Logout(h, t)) \/ RevokeSessions(h)
        PROVE  EntriesInv'
    <3>1. Known(handlers[h])
      BY DEF IInv, RequestsKnown
    <3> QED
      BY <2>4, <3>1, RevokeForms, RevokesEntries
  <2>5. ASSUME NEW h \in Handlers,
               \/ \E u \in UserIds, row \in UserRows : CreateUser(h, u, row)
               \/ \E role \in UserRoles : WriteRole(h, role)
               \/ WriteActive(h)
        PROVE  EntriesInv'
    BY <2>5, RowWriteForms, RowWriteEntries
  <2> QED
    BY <1>3, <2>1, <2>2, <2>3, <2>4, <2>5, NextCases, MoveEntries, AuditEntries, AbortEntries
<1> QED
  BY <1>2, <1>3

LEMMA EntriesAtFirst == Init => EntriesInv
<1> SUFFICES ASSUME Init, NEW u \in Registered PROVE Told(u)
  BY DEF EntriesInv
<1>1. \A h \in Handlers : handlers[h].stage = "idle"
  BY DEF Init, Idle
<1>2. told[u] = ClaimsOf(users[u])
  BY DEF Init, Registered
<1> QED
  BY <1>1, <1>2 DEF Told, Writes, ClaimsOf

\* What the entries last say of a user is what its row says, however many
\* administrators write it, once every entry is there; the exceptions are users
\* whose entry a failure lost, or whose row was written while the entry of
\* another write was still to come, until a whole row is told again.
THEOREM AuditTellsUsersAlways == Spec => []AuditTellsUsers
<1>1. Init => IInv /\ EntriesInv
  BY InvariantHoldsAtFirst, EntriesAtFirst
<1>2. IInv /\ EntriesInv /\ [Next]_vars => (IInv /\ EntriesInv)'
  BY InvariantIsKept, EntriesStep
<1>3. IInv /\ EntriesInv => AuditTellsUsers
  <2> SUFFICES ASSUME IInv, EntriesInv, NEW u \in Registered, u \notin misreported,
                      \A h \in Handlers : ~ Writes(h, u)
               PROVE  told[u] = ClaimsOf(users[u])
    BY DEF AuditTellsUsers
  <2>1. told[u] \in Claims /\ told[u].role = users[u].role /\ told[u].active = users[u].active
    BY DEF IInv, TypeOK, Registered, EntriesInv, Told
  <2> QED
    BY <2>1 DEF Claims, ClaimsOf
<1> QED
  BY <1>1, <1>2, <1>3, PTL DEF Spec

-----------------------------------------------------------------------------
(***************************************************************************)
(* The sessions implement the abstract sign-ins.                           *)
(***************************************************************************)
ValidOf(l) == { t \in Unrevoked : sessions[t].login = l }

PresentedBy(h) ==
  IF At(h, "loaded", "refresh")
    THEN [ token |-> handlers[h].token, login |-> sessions[handlers[h].token].login ]
    ELSE None

\* The other refreshes hold on to what they presented.
LEMMA PresentedStay ==
  ASSUME IInv, NEW h \in Handlers, NEW s, Turns(h, s), \A t \in Issued : KeepsFields(t)
  PROVE  \A g \in Handlers \ {h} : PresentedBy(g)' = PresentedBy(g)
<1> SUFFICES ASSUME NEW g \in Handlers \ {h}
             PROVE  PresentedBy(g)' = PresentedBy(g)
  OBVIOUS
<1>1. SameRequest(g) /\ Known(handlers[g])
  BY DEF Turns, IInv, RequestsKnown
<1>2. PICK t : t = handlers[g].token
  OBVIOUS
<1>3. handlers'[g].token = t /\ (At(g, "loaded", "refresh")' <=> At(g, "loaded", "refresh"))
  BY <1>1, <1>2 DEF SameRequest, At
<1>4. At(g, "loaded", "refresh") => t \in Issued
  BY <1>1, <1>2 DEF Known, At, SessionsOf
<1> QED
  BY <1>2, <1>3, <1>4 DEF PresentedBy, KeepsFields

\* A step that leaves the sessions alone and presents nothing.
LEMMA GivesUp ==
  ASSUME IInv, NEW h \in Handlers, NEW s, Turns(h, s), UNCHANGED sessions,
         ~ At(h, "loaded", "refresh")'
  PROVE  SignInsView!GiveUp(h)
<1>1. \A t \in Issued : KeepsFields(t)
  BY DEF KeepsFields
<1>2. \A g \in Handlers \ {h} : PresentedBy(g)' = PresentedBy(g)
  BY <1>1, PresentedStay
<1>3. PresentedBy(h)' = None
  BY DEF PresentedBy
<1>4. Issued' = Issued /\ \A l \in Tokens : ValidOf(l)' = ValidOf(l)
  BY DEF Issued, Unrevoked, ValidOf
<1> QED
  BY <1>2, <1>3, <1>4 DEF SignInsView!GiveUp, ValidOf, PresentedBy

LEMMA Presents ==
  ASSUME IInv, NEW h \in Handlers, NEW t \in Tokens, BeginRefresh(h, t), Turns(h, handlers'[h])
  PROVE  SignInsView!Next
<1>0. TypeOK /\ t \in Unrevoked /\ UNCHANGED sessions /\ handlers[h] = Idle
  BY DEF IInv, BeginRefresh, Usable, Live
<1>1. PICK login \in Tokens : login = sessions[t].login
  BY <1>0 DEF TypeOK, Unrevoked, Issued, Sessions
<1>2. PICK s : s = [ Idle EXCEPT !.stage = "loaded", !.op = "refresh", !.token = t,
                                 !.subject = sessions[t].user,
                                 !.overtaken = Ending(sessions[t].user) ]
  OBVIOUS
<1>3. s.stage = "loaded" /\ s.op = "refresh" /\ s.token = t
  BY <1>2 DEF Idle
<1>4. handlers'[h] = s
  BY <1>0, <1>2 DEF BeginRefresh, Become, TypeOK
<1>5. \A r \in Issued : KeepsFields(r)
  BY <1>0 DEF KeepsFields
<1>6. \A g \in Handlers \ {h} : PresentedBy(g)' = PresentedBy(g)
  BY <1>5, PresentedStay
<1>7. PresentedBy(h) = None
  BY <1>0 DEF PresentedBy, At, Idle
<1>8. PresentedBy(h)' = [ token |-> t, login |-> login ]
  BY <1>0, <1>1, <1>3, <1>4 DEF PresentedBy, At
<1>9. Issued' = Issued /\ \A l \in Tokens : ValidOf(l)' = ValidOf(l)
  BY <1>0 DEF Issued, Unrevoked, ValidOf
<1>10. t \in ValidOf(login)
  BY <1>0, <1>1 DEF ValidOf
<1>11. SignInsView!Present(h, login, t)
  BY <1>6, <1>7, <1>8, <1>9, <1>10 DEF SignInsView!Present, ValidOf, PresentedBy
<1> QED
  BY <1>11 DEF SignInsView!Next

LEMMA IssuesSignIns ==
  ASSUME IInv, NEW h \in Handlers, NEW t \in Tokens, Issues(h, t)
  PROVE  SignInsView!Next
<1>0. /\ Turns(h, Idle) /\ t \notin Issued /\ Issued' = Issued \cup {t}
      /\ Unrevoked \subseteq Issued /\ Issued \subseteq Tokens
      /\ \A r \in Unrevoked : sessions'[r].login = sessions[r].login
      /\ \A r \in Issued : KeepsFields(r)
      /\ handlers[h].stage = "loaded" /\ RotationKeepsOwner /\ Known(handlers[h])
  BY DEF Issues, KeepsFields, Unrevoked, Issued, SignsIn, IInv, RequestsKnown
<1>1. \A g \in Handlers \ {h} : PresentedBy(g)' = PresentedBy(g)
  BY <1>0, PresentedStay
<1>2. PresentedBy(h)' = None
  BY <1>0 DEF PresentedBy, Turns, At, Idle
<1>3. CASE /\ handlers[h].op = "login" /\ sessions'[t].login = t
           /\ Unrevoked' = Unrevoked \cup {t}
  <2>1. \A r \in Unrevoked : sessions[r].login # t
    BY <1>0 DEF RotationKeepsOwner, KeepsOwner, SessionsOf
  <2>2. \A l \in Tokens : ValidOf(l)' = IF l = t THEN {t} ELSE ValidOf(l)
    BY <1>0, <1>3, <2>1 DEF ValidOf
  <2>3. PresentedBy(h) = None
    BY <1>3 DEF PresentedBy, At
  <2>4. /\ [ l \in Tokens |-> ValidOf(l)' ]
             = [ [ l \in Tokens |-> ValidOf(l) ] EXCEPT ![t] = {t} ]
        /\ [ g \in Handlers |-> PresentedBy(g)' ] = [ g \in Handlers |-> PresentedBy(g) ]
    BY <1>1, <1>2, <2>2, <2>3
  <2>5. SignInsView!SignIn(t)
    BY <1>0, <2>4 DEF SignInsView!SignIn, ValidOf, PresentedBy
  <2> QED
    BY <2>5 DEF SignInsView!Next
<1>4. ASSUME NEW r \in Issued, handlers[h].op = "refresh", r = handlers[h].token,
             sessions'[t].login = sessions[r].login, Unrevoked' = (Unrevoked \ {r}) \cup {t}
      PROVE  SignInsView!Next
  <2>1. PICK login \in Tokens : login = sessions[r].login
    BY DEF IInv, TypeOK, Issued, Sessions
  <2>2. \A l \in Tokens :
          ValidOf(l)' = IF l = login THEN (ValidOf(l) \ {r}) \cup {t} ELSE ValidOf(l)
    BY <1>0, <1>4, <2>1 DEF ValidOf
  <2>3. PresentedBy(h) = [ token |-> r, login |-> login ]
    BY <1>0, <1>4, <2>1 DEF PresentedBy, At
  <2>4. PresentedBy(h) # None /\ PresentedBy(h).token = r /\ PresentedBy(h).login = login
    BY <1>0, <1>4, <2>3, AccountsAssumption
  <2>5. PICK presented :
          presented = [ g \in Handlers |-> PresentedBy(g) ]
    OBVIOUS
  <2>6. /\ presented[h] # None /\ presented[h].token = r /\ presented[h].login = login
        /\ [ l \in Tokens |-> ValidOf(l)' ]
             = [ [ l \in Tokens |-> ValidOf(l) ] EXCEPT
                   ![presented[h].login] = (@ \ {presented[h].token}) \cup {t} ]
        /\ [ g \in Handlers |-> PresentedBy(g)' ] = [ presented EXCEPT ![h] = None ]
    <3>1. presented[h] = PresentedBy(h)
      BY <2>5
    <3>2. [ l \in Tokens |-> ValidOf(l)' ]
             = [ [ l \in Tokens |-> ValidOf(l) ] EXCEPT ![login] = (@ \ {r}) \cup {t} ]
      BY <2>2
    <3>3. [ g \in Handlers |-> PresentedBy(g)' ] = [ presented EXCEPT ![h] = None ]
      BY <1>1, <1>2, <2>5
    <3> QED
      BY <2>4, <3>1, <3>2, <3>3
  <2>7. SignInsView!Rotate(h, t)
    BY <1>0, <2>5, <2>6 DEF SignInsView!Rotate, ValidOf, PresentedBy
  <2> QED
    BY <2>7 DEF SignInsView!Next
<1> QED
  BY <1>3, <1>4 DEF Issues

\* Sessions end, by a sign-out, a deactivation or a new password.
LEMMA EndsSignIns ==
  ASSUME IInv, NEW h \in Handlers, NEW s, NEW S, Turns(h, s),
         Issued' = Issued, Unrevoked' = Unrevoked \ S, \A t \in Issued : KeepsFields(t),
         ~ At(h, "loaded", "refresh"), s.stage # "loaded"
  PROVE  SignInsView!Next
<1>0. /\ \A r \in Unrevoked : sessions'[r].login = sessions[r].login
      /\ Unrevoked \subseteq Tokens
  BY DEF KeepsFields, Unrevoked, Issued
<1>1. \A g \in Handlers \ {h} : PresentedBy(g)' = PresentedBy(g)
  BY PresentedStay
<1>2. PresentedBy(h)' = PresentedBy(h)
  BY DEF PresentedBy, Turns, At
<1>3. \A l \in Tokens : ValidOf(l)' = ValidOf(l) \ (S \cap Tokens)
  BY <1>0 DEF ValidOf
<1>4. SignInsView!End(S \cap Tokens)
  BY <1>1, <1>2, <1>3 DEF SignInsView!End, ValidOf, PresentedBy
<1> QED
  BY <1>4 DEF SignInsView!Next

LEMMA SignInsStep ==
  IInv /\ [Next]_vars
    => [SignInsView!Next]_<< [ l \in Tokens |-> { t \in Unrevoked : sessions[t].login = l } ],
                             Issued,
                             [ h \in Handlers |->
                                 IF At(h, "loaded", "refresh")
                                   THEN [ token |-> handlers[h].token,
                                          login |-> sessions[handlers[h].token].login ]
                                   ELSE None ] >>
<1> SUFFICES ASSUME IInv, [Next]_vars
             PROVE  \/ SignInsView!Next
                    \/ /\ UNCHANGED Issued
                       /\ \A l \in Tokens : ValidOf(l)' = ValidOf(l)
                       /\ \A h \in Handlers : PresentedBy(h)' = PresentedBy(h)
  BY DEF ValidOf, PresentedBy
<1>a. Unrevoked \subseteq Issued
  BY DEF Unrevoked
<1>1. CASE UNCHANGED vars
  BY <1>1 DEF vars, Issued, Unrevoked, ValidOf, PresentedBy, At
<1>2. CASE OtherStep
  <2>1. Issued' = Issued /\ Unrevoked' = Unrevoked /\ UNCHANGED handlers
        /\ \A t \in Issued : KeepsFields(t)
    BY <1>2, OtherWaits DEF Waits
  <2>2. \A l \in Tokens : ValidOf(l)' = ValidOf(l)
    BY <1>a, <2>1 DEF ValidOf, KeepsFields
  <2>3. ASSUME NEW h \in Handlers PROVE PresentedBy(h)' = PresentedBy(h)
    <3>1. PICK t : t = handlers[h].token
      OBVIOUS
    <3>2. At(h, "loaded", "refresh") => t \in Issued
      BY <3>1 DEF IInv, RequestsKnown, Known, At, SessionsOf
    <3>3. handlers'[h].token = t /\ (At(h, "loaded", "refresh")' <=> At(h, "loaded", "refresh"))
      BY <2>1, <3>1 DEF At
    <3> QED
      BY <2>1, <3>1, <3>2, <3>3 DEF PresentedBy, KeepsFields
  <2> QED
    BY <2>1, <2>2, <2>3
<1>3. ASSUME NEW h \in Handlers,
             \/ \E op \in AllOperations, u \in UserIds : Authorize(h, op, u)
             \/ \E u \in UserIds : BeginLogin(h, u) \/ LoadUser(h, u)
             \/ \E t \in Tokens : BeginRefresh(h, t)
             \/ \E password \in Passwords : CheckOwnPassword(h, password) \/ StorePassword(h, password)
             \/ CountAdmins(h) \/ AuditLogout(h) \/ Refuse(h)
      PROVE  SignInsView!Next
  <2>1. /\ Turns(h, handlers'[h])
        /\ At(h, "loaded", "refresh")' => \E t \in Tokens : BeginRefresh(h, t)
    BY <1>3, MoveForms
  <2>2. UNCHANGED sessions
    BY <1>3 DEF Authorize, BeginLogin, LoadUser, BeginRefresh, CheckOwnPassword, StorePassword,
                CountAdmins, AuditLogout, Refuse
  <2> QED
    BY <2>1, <2>2, GivesUp, Presents DEF SignInsView!Next
<1>4. ASSUME NEW h \in Handlers, AuditUser(h) \/ Abort(h)
      PROVE  SignInsView!Next
  <2>1. Turns(h, Idle) /\ UNCHANGED sessions
    BY <1>4, IdleIsState, BecomeTurns DEF IInv, AuditUser, Abort, Finish
  <2>2. ~ At(h, "loaded", "refresh")'
    BY <2>1 DEF Turns, At, Idle
  <2> QED
    BY <2>1, <2>2, GivesUp DEF SignInsView!Next
<1>5. ASSUME NEW h \in Handlers, NEW t \in Tokens, FinishLogin(h, t) \/ FinishRefresh(h, t)
      PROVE  SignInsView!Next
  BY <1>5, IssueSteps, IssuesSignIns
<1>6. ASSUME NEW h \in Handlers,
             (\E t \in Tokens \cup {None} : Logout(h, t)) \/ RevokeSessions(h)
      PROVE  SignInsView!Next
  <2>1. PICK s, S : Revokes(h, s, S)
    BY <1>6, RevokeForms
  <2>2. ~ At(h, "loaded", "refresh") /\ s.stage # "loaded"
    BY <2>1 DEF Revokes, At
  <2> QED
    BY <2>1, <2>2, EndsSignIns DEF Revokes
<1>7. ASSUME NEW h \in Handlers, CommitPassword(h)
      PROVE  SignInsView!Next
  <2>1. Idle.stage = "idle"
    BY DEF Idle
  <2> QED
    BY <1>7, <2>1, CommitFacts, EndsSignIns DEF At
<1>8. ASSUME NEW h \in Handlers,
             \/ \E u \in UserIds, row \in UserRows : CreateUser(h, u, row)
             \/ \E role \in UserRoles : WriteRole(h, role)
             \/ WriteActive(h)
      PROVE  SignInsView!Next
  <2>1. PICK s, u : RowWrite(h, s, u)
    BY <1>8, RowWriteForms
  <2>2. Turns(h, s) /\ UNCHANGED sessions /\ ~ At(h, "loaded", "refresh")'
    BY <2>1 DEF RowWrite, Turns, At
  <2> QED
    BY <2>2, GivesUp DEF SignInsView!Next
<1> QED
  BY <1>1, <1>2, <1>3, <1>4, <1>5, <1>6, <1>7, <1>8, NextCases

\* Seen as sign-ins, the sessions only open, rotate and end, however requests
\* meet and fail: a refresh replaces the token it presented once, by one token of
\* the same sign-in, and a sign-in without a valid token resumes only by a
\* refresh that had presented one before.
THEOREM SessionsAreSignIns == Spec => ImplementsSignIns
<1>1. Init => SignInsView!Init
  BY DEF Init, Issued, Unrevoked, SignInsView!Init, At, Idle
<1>2. IInv /\ [Next]_vars
        => [SignInsView!Next]_<< [ l \in Tokens |-> { t \in Unrevoked : sessions[t].login = l } ],
                                 Issued,
                                 [ h \in Handlers |->
                                     IF At(h, "loaded", "refresh")
                                       THEN [ token |-> handlers[h].token,
                                              login |-> sessions[handlers[h].token].login ]
                                       ELSE None ] >>
  BY SignInsStep
<1> QED
  BY <1>1, <1>2, AccountsInvariance, PTL DEF Spec, ImplementsSignIns, SignInsView!Spec
=============================================================================
