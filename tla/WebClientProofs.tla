--------------------------- MODULE WebClientProofs ---------------------------
(***************************************************************************)
(* Theorems about WebClient for every number of calls and tokens, with     *)
(* requests lost, refused and answered in any order.                       *)
(***************************************************************************)
EXTENDS WebClient, TLAPS

-----------------------------------------------------------------------------
(***************************************************************************)
(* The inductive invariant.  Sound says what a call in flight looks like,  *)
(* Screens which calls there are while the user is not signed in, and Kept *)
(* where the live refresh token is as long as nothing has ended the        *)
(* session: in the jar, or in the one answer that brings a new one.        *)
(***************************************************************************)
Sound(call) ==
  /\ call.stage = "idle" <=> call.op = None
  /\ call.stage = "rotating" => call.refreshing
  /\ call.refreshing => call.retry /\ call.stage # "idle" /\ call.op # "login"
  /\ call.retry => call.op # "logout"
  /\ call.stage # "answered" => call.setCookies = "keep"
  /\ call.setCookies = "set" =>
       call.status = "200" /\ call.token # None /\ (call.refreshing \/ call.op = "login")
  /\ call.setCookies = "clear" => call.status = "200"
  /\ call.stage = "answered" /\ call.status = "200" =>
       /\ call.refreshing => call.setCookies = "set"
       /\ call.op = "changePassword" /\ ~ call.refreshing => call.setCookies = "clear"
  /\ call.stage = "sent" /\ ~ call.refreshing /\ call.op \in Mutations =>
       call.header = call.cookies.csrf
  /\ call.stage = "answered" /\ call.status = "403" => call.cookies.csrf = None

CallsSound == \A c \in Calls : Sound(calls[c])

Screens ==
  /\ user = "loading" => \A c \in Calls : calls[c].op \in {"me", None}
  /\ \A c \in Calls :
       /\ calls[c].op = "me" => user = "loading"
       /\ calls[c].op = "login" => user = "out"
       /\ calls[c].op \in {"me", "login"} => \A d \in Calls \ {c} : calls[d].op # calls[c].op

\* A call of a kept session: its refresh is granted and its retry authenticated.
Served(call) ==
  /\ call.op # "logout" /\ call.setCookies # "clear"
  /\ call.stage = "answered" /\ call.refreshing => call.status = "200"
  /\ call.stage = "sent" /\ ~ call.retry /\ call.op # "login" => call.cookies.access
  /\ call.stage = "answered" /\ call.status = "401" => call.retry /\ call.op # "login"
  /\ call.stage = "answered" /\ call.op = "me" => call.status \in {"200", "401"}
  /\ call.op = "login" => call.setCookies = "set"

Held(t) ==
  \/ /\ jar.refresh = t
     /\ \A c \in Calls :
          /\ calls[c].setCookies # "set"
          /\ calls[c].refreshing => calls[c].cookies.refresh = t
  \/ \E c \in Calls :
       /\ calls[c].setCookies = "set" /\ calls[c].token = t
       /\ \A d \in Calls \ {c} : calls[d].setCookies # "set" /\ ~ calls[d].refreshing

Kept ==
  /\ active
  /\ \A c \in Calls : Served(calls[c])
  /\ \A c, d \in Refreshing : c = d
  /\ \E t \in Live : Held(t)
  /\ user = "out" => \E c \in Calls : calls[c].op = "login"
  /\ \A c \in Calls : calls[c].op = "login" => \A d \in Calls \ {c} : calls[d].op = None

IInv == TypeOK /\ CallsSound /\ Screens /\ (kept => Kept)

-----------------------------------------------------------------------------
(***************************************************************************)
(* Lemmas about the helpers.                                               *)
(***************************************************************************)

\* The pipeline looks at the CSRF token first, then at the access token.
LEMMA ClientJudgement ==
  ASSUME NEW faults \in SUBSET {"csrf", "unauthenticated"}
  PROVE  Judgement(faults) = IF "csrf" \in faults THEN "403"
                             ELSE IF "unauthenticated" \in faults THEN "401" ELSE "200"
<1> DEFINE first(i) == /\ Checks[i].fault \in faults
                       /\ \A j \in 1..(i - 1) : Checks[j].fault \notin faults
<1>1. DOMAIN Checks = 1..7
  BY DEF Checks
<1>2. /\ Checks[1].fault \notin faults /\ Checks[3].fault \notin faults
      /\ Checks[5].fault \notin faults /\ Checks[6].fault \notin faults
      /\ Checks[7].fault \notin faults
      /\ Checks[2].fault = "csrf" /\ Checks[2].status = "403"
      /\ Checks[4].fault = "unauthenticated" /\ Checks[4].status = "401"
  BY DEF Checks
<1> HIDE DEF Checks
<1>3. \A i \in 1..7 : i \in {1, 2, 3, 4, 5, 6, 7}
  OBVIOUS
<1>4. CASE "csrf" \in faults
  <2>1. first(2) /\ \A i \in 1..7 : first(i) => i = 2
    BY <1>2, <1>3, <1>4
  <2>2. (CHOOSE i \in 1..7 : first(i)) = 2
    BY <2>1
  <2> QED
    BY <1>1, <1>2, <1>4, <2>2 DEF Judgement
<1>5. CASE "csrf" \notin faults /\ "unauthenticated" \in faults
  <2>1. first(4) /\ \A i \in 1..7 : first(i) => i = 4
    BY <1>2, <1>3, <1>5
  <2>2. (CHOOSE i \in 1..7 : first(i)) = 4
    BY <2>1
  <2> QED
    BY <1>1, <1>2, <1>5, <2>2 DEF Judgement
<1>6. CASE "csrf" \notin faults /\ "unauthenticated" \notin faults
  <2>1. \A i \in DOMAIN Checks : Checks[i].fault \notin faults
    BY <1>1, <1>2, <1>3, <1>6
  <2> QED
    BY <1>6, <2>1 DEF Judgement
<1> QED
  BY <1>4, <1>5, <1>6

\* What a request with those cookies is judged.
LEMMA JudgedFacts ==
  ASSUME NEW c \in Calls
  PROVE  /\ Judged(c) \in {"200", "401", "403"}
         /\ Judged(c) = "401" => ~ (calls[c].cookies.access /\ active)
         /\ Judged(c) = "403" => /\ calls[c].op \in Mutations
                                 /\ \/ calls[c].cookies.csrf = None
                                    \/ calls[c].header # calls[c].cookies.csrf
<1> DEFINE csrf == CsrfFault(calls[c].op \in Mutations, calls[c].header, calls[c].cookies.csrf, None)
<1>1. /\ csrf \subseteq {"csrf"} /\ AuthFault(c) \subseteq {"unauthenticated"}
      /\ "csrf" \in csrf => /\ calls[c].op \in Mutations
                            /\ \/ calls[c].cookies.csrf = None
                               \/ calls[c].header # calls[c].cookies.csrf
      /\ "unauthenticated" \in AuthFault(c) => ~ (calls[c].cookies.access /\ active)
  BY DEF CsrfFault, AuthFault
<1> HIDE DEF csrf
<1>2. csrf \cup AuthFault(c) \in SUBSET {"csrf", "unauthenticated"}
  BY <1>1
<1>3. Judged(c) = IF "csrf" \in csrf \cup AuthFault(c) THEN "403"
                  ELSE IF "unauthenticated" \in csrf \cup AuthFault(c) THEN "401" ELSE "200"
  BY <1>2, ClientJudgement DEF Judged, csrf
<1> QED
  BY <1>1, <1>3

LEMMA NewTokenFresh ==
  ASSUME Unused # {}
  PROVE  NewToken \in Tokens /\ sessions[NewToken] = "unused"
  BY DEF Unused, NewToken

-----------------------------------------------------------------------------
(***************************************************************************)
(* What a step does to its call.  Other calls stay as they are.            *)
(***************************************************************************)
Others(c) == \A d \in Calls \ {c} : calls'[d] = calls[d]

LEMMA IdleFacts ==
  /\ Idle \in CallStates /\ Sound(Idle) /\ Served(Idle)
  /\ Idle.stage = "idle" /\ Idle.op = None /\ ~ Idle.refreshing /\ Idle.setCookies = "keep"
<1>1. Idle \in CallStates
  BY DEF Idle, CallStates, Jars, EmptyJar, Statuses
<1>2. /\ Idle.stage = "idle" /\ Idle.op = None /\ ~ Idle.refreshing /\ ~ Idle.retry
      /\ Idle.setCookies = "keep"
  BY DEF Idle
<1>3. None \notin AllOperations
  BY WebClientAssumption
<1> QED
  BY <1>1, <1>2, <1>3 DEF Sound, Served, AllOperations

LEMMA BecomeFacts ==
  ASSUME TypeOK, NEW c \in Calls, NEW call \in CallStates, Become(c, call)
  PROVE  calls' \in [ Calls -> CallStates ] /\ calls'[c] = call /\ Others(c)
  BY DEF TypeOK, Become, Others

LEMMA AnswerFacts ==
  ASSUME TypeOK, NEW c \in Calls, NEW status \in Statuses, NEW set \in {"keep", "set", "clear"},
         NEW token \in Tokens \cup {None}, Answer(c, status, set, token)
  PROVE  /\ calls' \in [ Calls -> CallStates ] /\ Others(c)
         /\ calls'[c].stage = "answered" /\ calls'[c].op = calls[c].op
         /\ calls'[c].retry = calls[c].retry /\ calls'[c].refreshing = calls[c].refreshing
         /\ calls'[c].status = status /\ calls'[c].setCookies = set /\ calls'[c].token = token
         /\ calls'[c].cookies.csrf = calls[c].cookies.csrf
<1> DEFINE p == calls[c]
           jarA == [ p.cookies EXCEPT !.access = FALSE ]
           jarB == [ jarA EXCEPT !.refresh = None ]
<1>1. p \in CallStates /\ p.cookies \in Jars
  BY DEF TypeOK, CallStates
<1>2. jarA \in Jars /\ jarA.csrf = p.cookies.csrf
  BY <1>1 DEF Jars
<1> HIDE DEF jarA
<1>3. jarB \in Jars /\ jarB.csrf = p.cookies.csrf
  BY <1>2 DEF Jars
<1> HIDE DEF jarB
<1> DEFINE q == [ p EXCEPT !.stage = "answered", !.status = status, !.cookies = jarB,
                           !.header = None, !.setCookies = set, !.token = token ]
<1>4. q \in CallStates
  BY <1>1, <1>3 DEF CallStates
<1>5. /\ q.stage = "answered" /\ q.op = p.op /\ q.retry = p.retry
      /\ q.refreshing = p.refreshing /\ q.status = status /\ q.setCookies = set
      /\ q.token = token /\ q.cookies = jarB
  BY <1>1, <1>3 DEF CallStates
<1>6. Become(c, q)
  BY <1>1 DEF Answer, CallStates, jarA, jarB
<1> HIDE DEF q
<1> QED
  BY <1>3, <1>4, <1>5, <1>6, BecomeFacts

LEMMA RequestFacts ==
  ASSUME NEW call \in CallStates, NEW cookies \in Jars
  PROVE  LET q == Request(call, cookies) IN
         /\ q \in CallStates /\ q.stage = "sent" /\ q.op = call.op /\ q.retry = call.retry
         /\ ~ q.refreshing /\ q.status = "none" /\ q.setCookies = "keep"
         /\ q.cookies = cookies
         /\ call.op \in Mutations => q.header = cookies.csrf
<1> DEFINE header == IF call.op \in Mutations THEN cookies.csrf ELSE None
           q == [ call EXCEPT !.stage = "sent", !.refreshing = FALSE, !.cookies = cookies,
                              !.status = "none", !.setCookies = "keep", !.header = header ]
<1>1. header \in Tokens \cup {None} /\ "none" \in Statuses
  BY DEF Jars, Statuses
<1>2. q = Request(call, cookies)
  BY DEF Request
<1> HIDE DEF header
<1>3. q \in CallStates
  BY <1>1 DEF CallStates
<1>4. /\ q.stage = "sent" /\ q.op = call.op /\ q.retry = call.retry
      /\ ~ q.refreshing /\ q.status = "none" /\ q.setCookies = "keep"
      /\ q.cookies = cookies /\ q.header = header
  BY <1>1 DEF CallStates
<1> HIDE DEF q
<1> QED
  BY <1>2, <1>3, <1>4 DEF header

LEMMA CookiesAfterFacts ==
  ASSUME TypeOK, NEW call \in CallStates
  PROVE  LET after == CookiesAfter(call) IN
         /\ after \in Jars
         /\ call.setCookies = "set" => after.refresh = call.token /\ after.access
         /\ call.setCookies = "keep" => after = jar
<1>1. EmptyJar \in Jars /\ jar \in Jars
  BY DEF EmptyJar, Jars, TypeOK
<1>2. call.token \in Tokens \cup {None} /\ call.setCookies \in {"keep", "set", "clear"}
  BY DEF CallStates
<1>3. [ access |-> TRUE, refresh |-> call.token, csrf |-> call.token ] \in Jars
  BY <1>2 DEF Jars
<1> QED
  BY <1>1, <1>2, <1>3 DEF CookiesAfter

-----------------------------------------------------------------------------
(***************************************************************************)
(* The invariant, action by action.                                        *)
(***************************************************************************)

LEMMA InitInvariant == Init => IInv
<1> SUFFICES ASSUME Init PROVE IInv
  OBVIOUS
<1>1. \A c \in Calls : calls[c] = Idle
  BY DEF Init
<1>2. EmptyJar \in Jars
  BY DEF EmptyJar, Jars
<1>3. TypeOK
  BY <1>2, IdleFacts DEF Init, TypeOK
<1>4. CallsSound
  BY <1>1, IdleFacts DEF CallsSound
<1>5. Screens
  BY <1>1, IdleFacts, WebClientAssumption DEF Screens, Init, AllOperations
<1> QED
  BY <1>3, <1>4, <1>5 DEF IInv, Init

\* A call changes and the screen does not: nobody asks for anything new.
LEMMA ScreensKept ==
  ASSUME Screens, NEW c \in Calls, Others(c), user' = user,
         \/ calls'[c].op = calls[c].op \/ calls'[c].op = None
         \/ calls[c].op = "changePassword" /\ calls'[c].op = "logout"
  PROVE  Screens'
<1>1. None \notin {"me", "login", "changePassword", "logout"}
  BY WebClientAssumption DEF AllOperations
<1> QED
  BY <1>1 DEF Screens, Others

\* A call ends and says what becomes of the user.
LEMMA ScreensSettled ==
  ASSUME TypeOK, Screens, NEW c \in Calls, Others(c), calls[c].op # None, calls'[c].op = None,
         NEW status, user' = UserAfter(calls[c], status)
  PROVE  Screens'
<1>1. None \notin {"me", "login", "changePassword", "logout"}
  BY WebClientAssumption DEF AllOperations
<1>2. user' \in {"in", "out"} \/ (user' = user /\ calls[c].op # "me")
  BY DEF UserAfter
<1>3. user' # "loading"
  BY <1>2 DEF Screens
<1>4. ASSUME NEW d \in Calls, calls'[d].op \in {"me", "login"}
      PROVE  d # c /\ calls'[d] = calls[d] /\ user' = user /\ calls[d].op = "login"
  <2>1. d # c /\ calls'[d] = calls[d]
    BY <1>1, <1>4 DEF Others
  <2>2. CASE calls[d].op = "me"
    BY <2>1, <2>2 DEF Screens
  <2>3. CASE calls[d].op = "login"
    <3>1. user = "out" /\ calls[c].op # "login" /\ calls[c].op # "me"
      BY <2>1, <2>3 DEF Screens
    <3> QED
      BY <2>1, <2>3, <3>1 DEF UserAfter
  <2> QED
    BY <1>4, <2>1, <2>2, <2>3
<1>5. \A d \in Calls : calls'[d].op \in {calls[d].op, None}
  BY DEF Others
<1> QED
  BY <1>1, <1>3, <1>4, <1>5 DEF Screens

\* An answer that brings no cookies: the session stays where it was.
LEMMA HeldKept ==
  ASSUME NEW t \in Tokens, Held(t), NEW c \in Calls, Others(c), jar'.refresh = jar.refresh,
         calls[c].setCookies # "set", calls'[c].setCookies # "set",
         calls'[c].refreshing =>
           calls[c].refreshing /\ (jar.refresh = t => calls'[c].cookies.refresh = t)
  PROVE  Held(t)'
<1>1. CASE /\ jar.refresh = t
           /\ \A d \in Calls :
                /\ calls[d].setCookies # "set"
                /\ calls[d].refreshing => calls[d].cookies.refresh = t
  <2>1. \A d \in Calls : /\ calls'[d].setCookies # "set"
                         /\ calls'[d].refreshing => calls'[d].cookies.refresh = t
    BY <1>1 DEF Others
  <2> QED
    BY <1>1, <2>1 DEF Held
<1>2. CASE \E e \in Calls :
             /\ calls[e].setCookies = "set" /\ calls[e].token = t
             /\ \A d \in Calls \ {e} : calls[d].setCookies # "set" /\ ~ calls[d].refreshing
  <2>1. PICK e \in Calls :
             /\ calls[e].setCookies = "set" /\ calls[e].token = t
             /\ \A d \in Calls \ {e} : calls[d].setCookies # "set" /\ ~ calls[d].refreshing
    BY <1>2
  <2>2. e # c /\ calls'[e] = calls[e] /\ ~ calls[c].refreshing
    BY <2>1 DEF Others
  <2>3. \A d \in Calls \ {e} : calls'[d].setCookies # "set" /\ ~ calls'[d].refreshing
    BY <2>1, <2>2 DEF Others
  <2> QED
    BY <2>1, <2>2, <2>3 DEF Held
<1> QED
  BY <1>1, <1>2 DEF Held

\* Every step of one call has the same frame: the facts about the other calls
\* stay, so Kept follows from what the call has become.
LEMMA KeptAfterAnswer ==
  ASSUME TypeOK, Kept, NEW c \in Calls, Others(c), active', user' = "out" => user = "out",
         jar'.refresh = jar.refresh, sessions' = sessions,
         calls[c].setCookies # "set", calls'[c].setCookies # "set",
         Served(calls'[c]),
         calls'[c].op \in {calls[c].op, None}, calls[c].op # "login",
         calls'[c].refreshing =>
           calls[c].refreshing /\ (jar.refresh = calls[c].cookies.refresh
                                     => calls'[c].cookies.refresh = calls[c].cookies.refresh)
  PROVE  Kept'
<1>1. PICK t \in Live : Held(t)
  BY DEF Kept
<1>2. t \in Live'
  BY DEF Live
<1>3. calls'[c].refreshing => (jar.refresh = t => calls'[c].cookies.refresh = t)
  <2>1. ASSUME calls'[c].refreshing, jar.refresh = t
        PROVE  calls[c].cookies.refresh = t
    BY <1>1, <2>1 DEF Held
  <2> QED
    BY <2>1
<1>4. Held(t)'
  BY <1>1, <1>3, HeldKept DEF Live
<1>5. \A d, e \in Refreshing' : d = e
  BY DEF Kept, Refreshing, Others
<1>6. \A d \in Calls : Served(calls'[d])
  BY DEF Kept, Others
<1>7. user' = "out" => \E d \in Calls : calls'[d].op = "login"
  BY DEF Kept, Others
<1>8. \A d \in Calls : calls'[d].op = "login" => \A e \in Calls \ {d} : calls'[e].op = None
  BY WebClientAssumption DEF Kept, Others, AllOperations
<1> QED
  BY <1>2, <1>4, <1>5, <1>6, <1>7, <1>8 DEF Kept

LEMMA StartInvariant ==
  ASSUME IInv, NEW c \in Calls, NEW op \in AllOperations, Start(c, op)
  PROVE  IInv'
<1> DEFINE call == [ Idle EXCEPT !.op = op, !.retry = Retries(op) ]
           q == Request(call, jar)
<1>0. TypeOK /\ CallsSound /\ Screens /\ jar \in Jars /\ calls[c] \in CallStates
  BY DEF IInv, TypeOK
<1>1. call \in CallStates /\ call.op = op /\ call.retry = (op # "logout")
  BY IdleFacts DEF CallStates, Retries
<1> HIDE DEF call
<1>2. /\ q \in CallStates /\ q.stage = "sent" /\ q.op = op /\ q.retry = (op # "logout")
      /\ ~ q.refreshing /\ q.status = "none" /\ q.setCookies = "keep" /\ q.cookies = jar
      /\ op \in Mutations => q.header = jar.csrf
  BY <1>0, <1>1, RequestFacts
<1>3. /\ Become(c, q) /\ kept' = (kept /\ op # "logout") /\ calls[c].stage = "idle"
      /\ UNCHANGED << sessions, active, jar, user >>
  BY DEF Start, call, server
<1>4. /\ Offered(op)
      /\ op \in {"me", "login"} => \A d \in Calls : calls[d].op # op
  BY DEF Start
<1> HIDE DEF q
<1>5. calls' \in [ Calls -> CallStates ] /\ calls'[c] = q /\ Others(c)
  BY <1>0, <1>2, <1>3, BecomeFacts
<1>6. calls[c].op = None /\ calls[c].setCookies = "keep" /\ ~ calls[c].refreshing
  BY <1>0, <1>3 DEF CallsSound, Sound
<1>7. TypeOK'
  BY <1>0, <1>3, <1>5 DEF TypeOK
<1>8. CallsSound'
  <2>1. op # None
    BY WebClientAssumption
  <2>2. Sound(q)
    BY <1>2, <2>1 DEF Sound
  <2> QED
    BY <1>0, <1>5, <2>2 DEF CallsSound, Others
<1>9. Screens'
  BY <1>0, <1>2, <1>3, <1>4, <1>5 DEF Screens, Others, Offered
<1>10. ASSUME kept' PROVE Kept'
  <2>1. Kept /\ op # "logout"
    BY <1>3, <1>10 DEF IInv
  <2>2. op # "login"
    BY <1>4, <2>1 DEF Kept, Offered
  <2>3. Served(q)
    BY <1>2, <2>1, <2>2 DEF Served
  <2>4. PICK t \in Live : Held(t)
    BY <2>1 DEF Kept
  <2>5. Held(t)' /\ t \in Live'
    BY <1>2, <1>3, <1>5, <1>6, <2>4, HeldKept DEF Live
  <2>6. user # "out"
    BY <1>4, <1>9, <2>1, <2>2 DEF Offered, Screens
  <2>7. \A d \in Calls : calls'[d].op # "login"
    BY <1>0, <1>2, <1>5, <2>2, <2>6 DEF Screens, Others
  <2>8. \A d, e \in Refreshing' : d = e
    BY <1>2, <1>5, <2>1 DEF Kept, Refreshing, Others
  <2> QED
    BY <1>3, <1>5, <2>1, <2>3, <2>5, <2>6, <2>7, <2>8 DEF Kept, Others
<1> QED
  BY <1>7, <1>8, <1>9, <1>10 DEF IInv

\* An answer without cookies.
LEMMA PlainAnswer ==
  ASSUME IInv, NEW c \in Calls, NEW status \in {"200", "401", "403", "refused"},
         Answer(c, status, "keep", None), calls[c].stage \in {"sent", "rotating"},
         UNCHANGED << sessions, active, jar, user >>, kept' \in BOOLEAN, kept' => kept,
         status = "200" => ~ calls[c].refreshing /\ calls[c].op # "changePassword",
         status = "403" => calls[c].cookies.csrf = None,
         kept' => /\ ~ calls[c].refreshing
                  /\ status = "401" => calls[c].retry
                  /\ calls[c].op = "me" => status \in {"200", "401"}
  PROVE  IInv'
<1>0. TypeOK /\ CallsSound /\ Screens /\ Sound(calls[c])
  BY DEF IInv, CallsSound
<1>1. status \in Statuses
  BY DEF Statuses
<1>2. /\ calls' \in [ Calls -> CallStates ] /\ Others(c)
      /\ calls'[c].stage = "answered" /\ calls'[c].op = calls[c].op
      /\ calls'[c].retry = calls[c].retry /\ calls'[c].refreshing = calls[c].refreshing
      /\ calls'[c].status = status /\ calls'[c].setCookies = "keep"
      /\ calls'[c].cookies.csrf = calls[c].cookies.csrf
  BY <1>0, <1>1, AnswerFacts
<1>3. TypeOK'
  BY <1>0, <1>2 DEF TypeOK
<1>4. CallsSound'
  <2>1. Sound(calls'[c])
    BY <1>0, <1>2 DEF Sound
  <2> QED
    BY <1>0, <1>2, <2>1 DEF CallsSound, Others
<1>5. Screens'
  BY <1>0, <1>2, ScreensKept
<1>6. ASSUME kept' PROVE Kept'
  <2>1. Kept /\ Served(calls[c])
    BY <1>6 DEF IInv, Kept
  <2>2. calls[c].setCookies = "keep"
    BY <1>0 DEF Sound
  <2>3. calls[c].op # "login"
    BY <2>1, <2>2 DEF Served
  <2>4. Served(calls'[c])
    BY <1>2, <1>6, <2>1, <2>3 DEF Served
  <2>5. active'
    BY <2>1 DEF Kept
  <2>6. ~ calls'[c].refreshing
    BY <1>2, <1>6
  <2> QED
    BY <1>0, <1>2, <2>1, <2>2, <2>3, <2>4, <2>5, <2>6, KeptAfterAnswer
<1> QED
  BY <1>3, <1>4, <1>5, <1>6 DEF IInv

\* A session begins: its token is the one the answer brings.
LEMMA LoginInvariant ==
  ASSUME IInv, NEW c \in Calls, ServeLogin(c)
  PROVE  IInv'
<1>0. TypeOK /\ CallsSound /\ Screens /\ Sound(calls[c]) /\ kept \in BOOLEAN
  BY DEF IInv, CallsSound, TypeOK
<1>1. /\ calls[c].stage = "sent" /\ ~ calls[c].refreshing /\ calls[c].op = "login"
      /\ UNCHANGED << active, jar, user >>
  BY DEF ServeLogin, At
<1>2. ~ kept
  BY <1>0, <1>1 DEF IInv, Kept, Served, Sound
<1>3. CASE Answer(c, "401", "keep", None) /\ UNCHANGED << sessions, kept >>
  BY <1>0, <1>1, <1>2, <1>3, PlainAnswer
<1>4. CASE /\ active /\ Unused # {}
           /\ sessions' = [ sessions EXCEPT ![NewToken] = "live" ]
           /\ Answer(c, "200", "set", NewToken)
           /\ kept' = (\A d \in Calls \ {c} : calls[d] = Idle)
  <2>0. PICK t \in Tokens : t = NewToken
    BY <1>4, NewTokenFresh
  <2>1. t # None /\ "200" \in Statuses
    BY WebClientAssumption DEF Statuses
  <2>2. /\ calls' \in [ Calls -> CallStates ] /\ Others(c)
        /\ calls'[c].stage = "answered" /\ calls'[c].op = calls[c].op
        /\ calls'[c].retry = calls[c].retry /\ calls'[c].refreshing = calls[c].refreshing
        /\ calls'[c].status = "200" /\ calls'[c].setCookies = "set"
        /\ calls'[c].token = t /\ calls'[c].cookies.csrf = calls[c].cookies.csrf
    BY <1>0, <1>4, <2>0, <2>1, AnswerFacts
  <2>3. sessions' \in [ Tokens -> {"unused", "live", "revoked"} ] /\ t \in Live'
    BY <1>0, <1>4, <2>0, <2>1 DEF TypeOK, Live
  <2>4. TypeOK'
    BY <1>0, <1>1, <1>4, <2>2, <2>3 DEF TypeOK
  <2>5. CallsSound'
    <3>1. Sound(calls'[c])
      BY <1>0, <1>1, <2>1, <2>2 DEF Sound
    <3> QED
      BY <1>0, <2>2, <3>1 DEF CallsSound, Others
  <2>6. Screens'
    BY <1>0, <1>1, <2>2, ScreensKept
  <2>7. ASSUME kept' PROVE Kept'
    <3>1. \A d \in Calls \ {c} : calls'[d] = Idle
      BY <1>4, <2>2, <2>7 DEF Others
    <3>2. Served(calls'[c])
      BY <1>1, <2>2 DEF Served
    <3>3. \A d \in Calls : Served(calls'[d])
      BY <3>1, <3>2, IdleFacts
    <3>4. /\ \A d \in Calls \ {c} : calls'[d].op = None
          /\ \A d \in Calls : ~ calls'[d].refreshing
          /\ \A d \in Calls \ {c} : calls'[d].setCookies # "set"
      BY <1>1, <2>2, <3>1, IdleFacts
    <3>5. Held(t)'
      BY <2>2, <3>4 DEF Held
    <3>6. \A d \in Calls : calls'[d].op = "login" => d = c
      BY <3>4, WebClientAssumption DEF AllOperations
    <3> QED
      BY <1>1, <1>4, <2>2, <2>3, <3>3, <3>4, <3>5, <3>6 DEF Kept, Refreshing
  <2> QED
    BY <2>4, <2>5, <2>6, <2>7 DEF IInv
<1> QED
  BY <1>3, <1>4 DEF ServeLogin

LEMMA RevokeFacts ==
  ASSUME TypeOK, NEW tokens, Revoke(tokens)
  PROVE  sessions' \in [ Tokens -> {"unused", "live", "revoked"} ]
BY DEF TypeOK, Revoke

\* An answer that clears the cookies ends a session nobody counts on any more.
LEMMA ClearingAnswer ==
  ASSUME IInv, NEW c \in Calls, NEW tokens, Revoke(tokens), Answer(c, "200", "clear", None),
         calls[c].stage = "sent", ~ calls[c].refreshing,
         calls[c].op \in {"logout", "changePassword"}, UNCHANGED << active, jar, user >>,
         kept' = FALSE
  PROVE  IInv'
<1>0. TypeOK /\ CallsSound /\ Screens /\ Sound(calls[c])
  BY DEF IInv, CallsSound
<1>1. "200" \in Statuses
  BY DEF Statuses
<1>2. /\ calls' \in [ Calls -> CallStates ] /\ Others(c)
      /\ calls'[c].stage = "answered" /\ calls'[c].op = calls[c].op
      /\ calls'[c].retry = calls[c].retry /\ calls'[c].refreshing = calls[c].refreshing
      /\ calls'[c].status = "200" /\ calls'[c].setCookies = "clear"
  BY <1>0, <1>1, AnswerFacts
<1>3. TypeOK'
  BY <1>0, <1>2, RevokeFacts DEF TypeOK
<1>4. Sound(calls'[c])
  BY <1>0, <1>2 DEF Sound
<1>5. CallsSound'
  BY <1>0, <1>2, <1>4 DEF CallsSound, Others
<1>6. Screens'
  BY <1>0, <1>2, ScreensKept
<1> QED
  BY <1>3, <1>5, <1>6 DEF IInv

\* A kept session's call is refused with 401 only on its first attempt.
LEMMA FirstAttempt ==
  ASSUME IInv, kept, NEW c \in Calls, calls[c].stage = "sent", calls[c].op # "login",
         Judged(c) = "401"
  PROVE  calls[c].retry
BY JudgedFacts DEF IInv, Kept, Served

\* A request carries the CSRF token of its own cookies.
LEMMA HeaderFits ==
  ASSUME IInv, NEW c \in Calls, calls[c].stage = "sent", ~ calls[c].refreshing,
         Judged(c) = "403"
  PROVE  calls[c].cookies.csrf = None
BY JudgedFacts DEF IInv, CallsSound, Sound

LEMMA PageInvariant ==
  ASSUME IInv, NEW c \in Calls, ServePage(c)
  PROVE  IInv'
<1>1. PICK status \in IF Judged(c) = "200" THEN {"200", "refused"} ELSE {Judged(c)} :
        Answer(c, status, "keep", None)
  BY DEF ServePage
<1>2. /\ calls[c].stage = "sent" /\ ~ calls[c].refreshing /\ calls[c].op \in {"get", "save"}
      /\ UNCHANGED << sessions, active, jar, user, kept >>
  BY DEF ServePage, At, server
<1>3. /\ status \in {"200", "401", "403", "refused"}
      /\ status \in {"401", "403"} => Judged(c) = status
  BY <1>1, JudgedFacts
<1>4. kept \in BOOLEAN
  BY DEF IInv, TypeOK
<1>5. status = "403" => calls[c].cookies.csrf = None
  BY <1>2, <1>3, HeaderFits
<1>6. kept /\ status = "401" => calls[c].retry
  BY <1>2, <1>3, FirstAttempt
<1> QED
  BY <1>1, <1>2, <1>3, <1>4, <1>5, <1>6, PlainAnswer

LEMMA MeInvariant ==
  ASSUME IInv, NEW c \in Calls, ServeMe(c)
  PROVE  IInv'
<1>1. /\ calls[c].stage = "sent" /\ ~ calls[c].refreshing /\ calls[c].op = "me"
      /\ Answer(c, Judged(c), "keep", None)
      /\ UNCHANGED << sessions, active, jar, user, kept >>
  BY DEF ServeMe, At, server
<1>2. kept \in BOOLEAN
  BY DEF IInv, TypeOK
<1>3. Judged(c) \in {"200", "401"}
  BY <1>1, JudgedFacts DEF Mutations
<1>4. kept /\ Judged(c) = "401" => calls[c].retry
  BY <1>1, FirstAttempt
<1> QED
  BY <1>1, <1>2, <1>3, <1>4, PlainAnswer

LEMMA LogoutInvariant ==
  ASSUME IInv, NEW c \in Calls, ServeLogout(c)
  PROVE  IInv'
<1>1. /\ calls[c].stage = "sent" /\ ~ calls[c].refreshing /\ calls[c].op = "logout"
      /\ UNCHANGED << active, jar, user, kept >>
  BY DEF ServeLogout, At
<1>2. kept = FALSE
  BY <1>1 DEF IInv, TypeOK, Kept, Served
<1>3. CASE Judged(c) = "200"
  BY <1>1, <1>2, <1>3, ClearingAnswer DEF ServeLogout
<1>4. CASE Judged(c) # "200"
  <2>1. Answer(c, Judged(c), "keep", None) /\ sessions' = sessions
    BY <1>4 DEF ServeLogout
  <2>2. Judged(c) \in {"401", "403"}
    BY <1>4, JudgedFacts
  <2>3. Judged(c) = "403" => calls[c].cookies.csrf = None
    BY <1>1, HeaderFits
  <2> QED
    BY <1>1, <1>2, <2>1, <2>2, <2>3, PlainAnswer
<1> QED
  BY <1>3, <1>4

LEMMA ChangePasswordInvariant ==
  ASSUME IInv, NEW c \in Calls, ServeChangePassword(c)
  PROVE  IInv'
<1>1. /\ calls[c].stage = "sent" /\ ~ calls[c].refreshing /\ calls[c].op = "changePassword"
      /\ UNCHANGED << active, jar, user >>
  BY DEF ServeChangePassword, At
<1>2. CASE Revoke(Tokens) /\ Answer(c, "200", "clear", None) /\ kept' = FALSE
  BY <1>1, <1>2, ClearingAnswer
<1>3. CASE /\ Answer(c, IF Judged(c) = "200" THEN "refused" ELSE Judged(c), "keep", None)
           /\ UNCHANGED << sessions, kept >>
  <2>1. PICK status \in {"401", "403", "refused"} :
          status = IF Judged(c) = "200" THEN "refused" ELSE Judged(c)
    BY JudgedFacts
  <2>2. kept \in BOOLEAN
    BY DEF IInv, TypeOK
  <2>3. status = "403" => calls[c].cookies.csrf = None
    BY <1>1, <2>1, HeaderFits
  <2>4. kept /\ status = "401" => calls[c].retry
    BY <1>1, <2>1, FirstAttempt
  <2>5. Answer(c, status, "keep", None)
    BY <1>3, <2>1
  <2> QED
    BY <1>1, <1>3, <2>1, <2>2, <2>3, <2>4, <2>5, PlainAnswer
<1> QED
  BY <1>2, <1>3 DEF ServeChangePassword

LEMMA BadInvariant ==
  ASSUME IInv, NEW c \in Calls, ServeBadly(c)
  PROVE  IInv'
<1>1. /\ calls[c].stage \in {"sent", "rotating"} /\ Answer(c, "refused", "keep", None)
      /\ kept' = (kept /\ ~ calls[c].refreshing /\ calls[c].op # "me")
      /\ UNCHANGED << sessions, active, jar, user >>
  BY DEF ServeBadly, server
<1> QED
  BY <1>1, PlainAnswer DEF IInv, TypeOK

\* The refresh of a kept session finds that session.
LEMMA RefreshFindsSession ==
  ASSUME IInv, kept, NEW c \in Calls, calls[c].refreshing, calls[c].stage # "answered"
  PROVE  /\ calls[c].cookies.refresh \in Live /\ active
         /\ \A d \in Calls : calls[d].setCookies # "set"
         /\ \A d \in Calls : calls[d].refreshing => d = c
<1>1. Kept /\ calls[c].setCookies = "keep"
  BY DEF IInv, CallsSound, Sound
<1>2. PICK t \in Live : Held(t)
  BY <1>1 DEF Kept
<1>3. /\ \A d \in Calls : calls[d].setCookies # "set"
      /\ calls[c].cookies.refresh = t
  BY <1>1, <1>2 DEF Held
<1> QED
  BY <1>1, <1>3 DEF Kept, Refreshing

LEMMA RefreshInvariant ==
  ASSUME IInv, NEW c \in Calls, ServeRefresh(c)
  PROVE  IInv'
<1>0. TypeOK /\ CallsSound /\ Screens /\ Sound(calls[c]) /\ kept \in BOOLEAN
  BY DEF IInv, CallsSound, TypeOK
<1>1. /\ calls[c].stage = "sent" /\ calls[c].refreshing
      /\ UNCHANGED << sessions, active, jar, user, kept >>
  BY DEF ServeRefresh, server
<1>2. CASE calls[c].cookies.refresh \in Live /\ active
  <2> DEFINE q == [ calls[c] EXCEPT !.stage = "rotating" ]
  <2>1. calls[c] \in CallStates
    BY <1>0 DEF TypeOK
  <2>2. /\ q \in CallStates /\ q.stage = "rotating" /\ q.op = calls[c].op
        /\ q.retry = calls[c].retry /\ q.refreshing = calls[c].refreshing
        /\ q.cookies = calls[c].cookies /\ q.setCookies = calls[c].setCookies
    BY <2>1 DEF CallStates
  <2>3. Become(c, q)
    BY <1>2 DEF ServeRefresh
  <2> HIDE DEF q
  <2>4. calls' \in [ Calls -> CallStates ] /\ calls'[c] = q /\ Others(c)
    BY <1>0, <2>2, <2>3, BecomeFacts
  <2>5. TypeOK'
    BY <1>0, <1>1, <2>4 DEF TypeOK
  <2>6. calls[c].setCookies = "keep" /\ calls[c].op # "login"
    BY <1>0, <1>1 DEF Sound
  <2>7. CallsSound'
    <3>1. Sound(q)
      BY <1>0, <1>1, <2>2, <2>6 DEF Sound
    <3> QED
      BY <1>0, <2>4, <3>1 DEF CallsSound, Others
  <2>8. Screens'
    BY <1>0, <1>1, <2>2, <2>4, ScreensKept
  <2>9. ASSUME kept' PROVE Kept'
    <3>1. Kept
      BY <1>1, <2>9 DEF IInv
    <3>2. Served(q)
      BY <2>2, <2>6, <3>1 DEF Kept, Served
    <3>3. active'
      BY <1>1, <1>2
    <3> QED
      BY <1>0, <1>1, <2>2, <2>4, <2>6, <3>1, <3>2, <3>3, KeptAfterAnswer
  <2> QED
    BY <2>5, <2>7, <2>8, <2>9 DEF IInv
<1>3. CASE ~ (calls[c].cookies.refresh \in Live /\ active)
  <2>1. kept = FALSE
    BY <1>0, <1>1, <1>3, RefreshFindsSession
  <2>2. Answer(c, "401", "keep", None)
    BY <1>3 DEF ServeRefresh
  <2> QED
    BY <1>0, <1>1, <2>1, <2>2, PlainAnswer
<1> QED
  BY <1>2, <1>3

LEMMA RotateInvariant ==
  ASSUME IInv, NEW c \in Calls, Rotate(c)
  PROVE  IInv'
<1>0. TypeOK /\ CallsSound /\ Screens /\ Sound(calls[c])
  BY DEF IInv, CallsSound
<1>1. /\ calls[c].stage = "rotating" /\ Unused # {}
      /\ sessions' = [ sessions EXCEPT ![calls[c].cookies.refresh] = "revoked",
                                       ![NewToken] = "live" ]
      /\ Answer(c, "200", "set", NewToken)
      /\ UNCHANGED << active, jar, user, kept >>
  BY DEF Rotate
<1>2. calls[c].refreshing /\ calls[c].op # "login" /\ calls[c].op # None /\ calls[c].retry
  BY <1>0, <1>1 DEF Sound
<1>3. PICK t \in Tokens : t = NewToken
  BY <1>1, NewTokenFresh
<1>4. t # None /\ "200" \in Statuses
  BY WebClientAssumption DEF Statuses
<1>5. /\ calls' \in [ Calls -> CallStates ] /\ Others(c)
      /\ calls'[c].stage = "answered" /\ calls'[c].op = calls[c].op
      /\ calls'[c].retry = calls[c].retry /\ calls'[c].refreshing = calls[c].refreshing
      /\ calls'[c].status = "200" /\ calls'[c].setCookies = "set"
      /\ calls'[c].token = t /\ calls'[c].cookies.csrf = calls[c].cookies.csrf
  BY <1>0, <1>1, <1>3, <1>4, AnswerFacts
<1>6. sessions' \in [ Tokens -> {"unused", "live", "revoked"} ] /\ t \in Live'
  BY <1>0, <1>1, <1>3 DEF TypeOK, Live
<1>7. TypeOK'
  BY <1>0, <1>1, <1>5, <1>6 DEF TypeOK
<1>8. CallsSound'
  <2>1. Sound(calls'[c])
    BY <1>0, <1>2, <1>4, <1>5 DEF Sound
  <2> QED
    BY <1>0, <1>5, <2>1 DEF CallsSound, Others
<1>9. Screens'
  BY <1>0, <1>1, <1>5, ScreensKept
<1>10. ASSUME kept' PROVE Kept'
  <2>1. kept /\ Kept
    BY <1>1, <1>10 DEF IInv
  <2>2. \A d \in Calls \ {c} : calls[d].setCookies # "set" /\ ~ calls[d].refreshing
    BY <1>1, <1>2, <2>1, RefreshFindsSession
  <2>3. \A d \in Calls \ {c} : calls'[d].setCookies # "set" /\ ~ calls'[d].refreshing
    BY <1>5, <2>2 DEF Others
  <2>4. Held(t)'
    BY <1>5, <2>3 DEF Held
  <2>5. Served(calls'[c])
    BY <1>2, <1>5, <2>1 DEF Kept, Served
  <2>6. \A d \in Calls : Served(calls'[d])
    BY <1>5, <2>1, <2>5 DEF Kept, Others
  <2>7. \A d, e \in Refreshing' : d = e
    BY <2>3 DEF Refreshing
  <2>8. \A d \in Calls : calls'[d].op = calls[d].op
    BY <1>5 DEF Others
  <2> QED
    BY <1>1, <1>6, <2>1, <2>4, <2>6, <2>7, <2>8 DEF Kept
<1> QED
  BY <1>7, <1>8, <1>9, <1>10 DEF IInv

-----------------------------------------------------------------------------
(***************************************************************************)
(* The answers.                                                            *)
(***************************************************************************)

LEMMA UnauthorizedInvariant ==
  ASSUME IInv, NEW c \in Calls, DeliverUnauthorized(c)
  PROVE  IInv'
<1> DEFINE q == [ calls[c] EXCEPT !.stage = "sent", !.cookies = jar, !.refreshing = TRUE ]
<1>0. /\ TypeOK /\ CallsSound /\ Screens /\ Sound(calls[c])
      /\ calls[c] \in CallStates /\ jar \in Jars /\ kept \in BOOLEAN
  BY DEF IInv, CallsSound, TypeOK
<1>1. /\ calls[c].stage = "answered" /\ ~ calls[c].refreshing /\ calls[c].status = "401"
      /\ calls[c].retry /\ calls[c].op # "login"
      /\ Become(c, q) /\ kept' = (kept /\ Refreshing = {})
      /\ UNCHANGED << sessions, active, jar, user >>
  BY DEF DeliverUnauthorized, MayRefresh, server
<1>2. /\ q \in CallStates /\ q.stage = "sent" /\ q.op = calls[c].op /\ q.retry = calls[c].retry
      /\ q.refreshing /\ q.cookies = jar /\ q.setCookies = calls[c].setCookies
  BY <1>0 DEF CallStates
<1> HIDE DEF q
<1>3. calls' \in [ Calls -> CallStates ] /\ calls'[c] = q /\ Others(c)
  BY <1>0, <1>1, <1>2, BecomeFacts
<1>4. calls[c].setCookies = "keep" /\ calls[c].op # None /\ calls[c].op # "logout"
  BY <1>0, <1>1 DEF Sound, CallStates
<1>5. TypeOK'
  BY <1>0, <1>1, <1>3 DEF TypeOK
<1>6. CallsSound'
  <2>1. Sound(q)
    BY <1>1, <1>2, <1>4 DEF Sound
  <2> QED
    BY <1>0, <1>3, <2>1 DEF CallsSound, Others
<1>7. Screens'
  BY <1>0, <1>1, <1>2, <1>3, ScreensKept
<1>8. ASSUME kept' PROVE Kept'
  <2>1. Kept /\ \A d \in Calls : ~ calls[d].refreshing
    BY <1>0, <1>1, <1>8 DEF IInv, Refreshing
  <2>2. \A d \in Calls : calls[d].setCookies # "set"
    <3>1. ASSUME NEW d \in Calls, calls[d].setCookies = "set" PROVE FALSE
      <4>1. d # c /\ calls[d].op = "login"
        BY <1>0, <1>4, <2>1, <3>1 DEF CallsSound, Sound
      <4> QED
        BY <1>4, <2>1, <4>1 DEF Kept
    <3> QED
      BY <3>1
  <2>3. PICK t \in Live : Held(t)
    BY <2>1 DEF Kept
  <2>4. jar.refresh = t
    BY <2>2, <2>3 DEF Held
  <2>5. Held(t)' /\ t \in Live'
    <3>1. \A d \in Calls : /\ calls'[d].setCookies # "set"
                           /\ calls'[d].refreshing => calls'[d].cookies.refresh = t
      BY <1>2, <1>3, <1>4, <2>1, <2>2, <2>4 DEF Others
    <3> QED
      BY <1>1, <2>3, <2>4, <3>1 DEF Held, Live
  <2>6. Served(q)
    BY <1>1, <1>2, <1>4, <2>1 DEF Kept, Served
  <2>7. \A d \in Calls : Served(calls'[d])
    BY <1>3, <2>1, <2>6 DEF Kept, Others
  <2>8. \A d, e \in Refreshing' : d = e
    BY <1>3, <2>1 DEF Refreshing, Others
  <2>9. \A d \in Calls : calls'[d].op = calls[d].op
    BY <1>2, <1>3 DEF Others
  <2> QED
    BY <1>1, <2>1, <2>5, <2>7, <2>8, <2>9 DEF Kept
<1> QED
  BY <1>5, <1>6, <1>7, <1>8 DEF IInv

\* The one answer that brings the new refresh token puts it into the jar.
LEMMA HeldDelivered ==
  ASSUME TypeOK, NEW t \in Tokens, Held(t), NEW c \in Calls, calls[c].setCookies = "set",
         jar'.refresh = calls[c].token, Others(c),
         calls'[c].setCookies # "set", ~ calls'[c].refreshing
  PROVE  Held(t)' /\ \A d \in Calls \ {c} : ~ calls'[d].refreshing
<1>1. /\ calls[c].token = t
      /\ \A d \in Calls \ {c} : calls[d].setCookies # "set" /\ ~ calls[d].refreshing
  BY DEF Held
<1>2. \A d \in Calls \ {c} : calls'[d].setCookies # "set" /\ ~ calls'[d].refreshing
  BY <1>1 DEF Others
<1> QED
  BY <1>1, <1>2 DEF Held

\* A call ends: its place is free again.
LEMMA SettleFacts ==
  ASSUME IInv, NEW c \in Calls, NEW status, Settle(c, status), calls[c].stage # "idle",
         jar' \in Jars, sessions' = sessions, active' = active, kept' \in BOOLEAN
  PROVE  /\ TypeOK' /\ CallsSound' /\ Screens' /\ Others(c) /\ calls'[c] = Idle
         /\ user' = UserAfter(calls[c], status)
<1>0. TypeOK /\ CallsSound /\ Screens /\ Sound(calls[c])
  BY DEF IInv, CallsSound
<1>1. /\ Become(c, Idle) /\ user' = UserAfter(calls[c], status)
      /\ calls[c].op # None
  BY <1>0 DEF Settle, Sound
<1>2. calls' \in [ Calls -> CallStates ] /\ calls'[c] = Idle /\ Others(c)
  BY <1>0, <1>1, IdleFacts, BecomeFacts
<1>3. user' \in {"loading", "in", "out"}
  BY <1>0, <1>1 DEF UserAfter, TypeOK
<1>4. TypeOK'
  BY <1>0, <1>2, <1>3 DEF TypeOK
<1>5. CallsSound'
  BY <1>0, <1>2, IdleFacts DEF CallsSound, Others
<1>6. Screens'
  BY <1>0, <1>1, <1>2, IdleFacts, ScreensSettled
<1> QED
  BY <1>1, <1>2, <1>4, <1>5, <1>6

LEMMA DeliverRefreshInvariant ==
  ASSUME IInv, NEW c \in Calls, DeliverRefresh(c)
  PROVE  IInv'
<1>0. /\ TypeOK /\ CallsSound /\ Screens /\ Sound(calls[c])
      /\ calls[c] \in CallStates /\ kept \in BOOLEAN
  BY DEF IInv, CallsSound, TypeOK
<1>1. /\ calls[c].stage = "answered" /\ calls[c].refreshing
      /\ jar' = CookiesAfter(calls[c])
      /\ UNCHANGED << sessions, active, kept >>
  BY DEF DeliverRefresh, server
<1>2. jar' \in Jars
  BY <1>0, <1>1, CookiesAfterFacts
<1>3. CASE calls[c].status = "200"
  <2> DEFINE call == [ calls[c] EXCEPT !.retry = FALSE ]
             cookies == CookiesAfter(calls[c])
             q == Request(call, cookies)
  <2>1. calls[c].setCookies = "set"
    BY <1>0, <1>1, <1>3 DEF Sound
  <2>2. cookies \in Jars /\ cookies.refresh = calls[c].token /\ cookies.access
    BY <1>0, <2>1, CookiesAfterFacts
  <2>3. call \in CallStates /\ call.op = calls[c].op /\ ~ call.retry
    BY <1>0 DEF CallStates
  <2>4. Become(c, q) /\ user' = user /\ jar' = cookies
    BY <1>1, <1>3 DEF DeliverRefresh
  <2> HIDE DEF call, cookies
  <2>5. /\ q \in CallStates /\ q.stage = "sent" /\ q.op = calls[c].op /\ ~ q.retry
        /\ ~ q.refreshing /\ q.status = "none" /\ q.setCookies = "keep" /\ q.cookies = cookies
        /\ q.op \in Mutations => q.header = cookies.csrf
    BY <2>2, <2>3, RequestFacts
  <2> HIDE DEF q
  <2>6. calls' \in [ Calls -> CallStates ] /\ calls'[c] = q /\ Others(c)
    BY <1>0, <2>4, <2>5, BecomeFacts
  <2>7. TypeOK'
    BY <1>0, <1>1, <1>2, <2>4, <2>6 DEF TypeOK
  <2>8. CallsSound'
    <3>1. Sound(q)
      BY <1>0, <1>1, <2>5 DEF Sound
    <3> QED
      BY <1>0, <2>6, <3>1 DEF CallsSound, Others
  <2>9. Screens'
    BY <1>0, <2>4, <2>5, <2>6, ScreensKept
  <2>10. ASSUME kept' PROVE Kept'
    <3>1. Kept
      BY <1>1, <2>10 DEF IInv
    <3>2. PICK t \in Live : Held(t)
      BY <3>1 DEF Kept
    <3>3. Held(t)' /\ \A d \in Calls \ {c} : ~ calls'[d].refreshing
      BY <1>0, <2>1, <2>2, <2>4, <2>5, <2>6, <3>2, HeldDelivered DEF Live
    <3>4. t \in Live'
      BY <1>1, <3>2 DEF Live
    <3>5. Served(q)
      BY <1>0, <1>1, <2>2, <2>5, <3>1 DEF Kept, Served, Sound
    <3>6. \A d \in Calls : Served(calls'[d])
      BY <2>6, <3>1, <3>5 DEF Kept, Others
    <3>7. \A d, e \in Refreshing' : d = e
      BY <2>5, <2>6, <3>3 DEF Refreshing
    <3>8. \A d \in Calls : calls'[d].op = calls[d].op
      BY <2>5, <2>6 DEF Others
    <3> QED
      BY <1>1, <2>4, <3>1, <3>3, <3>4, <3>6, <3>7, <3>8 DEF Kept
  <2> QED
    BY <2>7, <2>8, <2>9, <2>10 DEF IInv
<1>4. CASE calls[c].status # "200"
  <2>1. Settle(c, "401")
    BY <1>4 DEF DeliverRefresh
  <2>2. TypeOK' /\ CallsSound' /\ Screens'
    BY <1>0, <1>1, <1>2, <2>1, SettleFacts
  <2>3. ~ kept'
    BY <1>1, <1>4 DEF IInv, Kept, Served
  <2> QED
    BY <2>2, <2>3 DEF IInv
<1> QED
  BY <1>3, <1>4

LEMMA AnswerInvariant ==
  ASSUME IInv, NEW c \in Calls, DeliverAnswer(c)
  PROVE  IInv'
<1>0. /\ TypeOK /\ CallsSound /\ Screens /\ Sound(calls[c])
      /\ calls[c] \in CallStates /\ kept \in BOOLEAN
  BY DEF IInv, CallsSound, TypeOK
<1>1. /\ calls[c].stage = "answered" /\ ~ calls[c].refreshing
      /\ ~ (calls[c].status = "401" /\ calls[c].retry /\ calls[c].op # "login")
      /\ jar' = CookiesAfter(calls[c])
      /\ UNCHANGED << sessions, active, kept >>
  BY DEF DeliverAnswer, MayRefresh, server
<1>2. jar' \in Jars /\ (calls[c].setCookies = "keep" => jar' = jar)
      /\ (calls[c].setCookies = "set" => jar'.refresh = calls[c].token)
  BY <1>0, <1>1, CookiesAfterFacts
<1>3. CASE calls[c].op = "changePassword" /\ calls[c].status = "200"
  <2> DEFINE call == [ Idle EXCEPT !.op = "logout" ]
             cookies == CookiesAfter(calls[c])
             q == Request(call, cookies)
  <2>1. cookies \in Jars
    BY <1>0, CookiesAfterFacts
  <2>2. call \in CallStates /\ call.op = "logout" /\ ~ call.retry
    <3>1. "logout" \in AllOperations /\ Idle.retry = FALSE
      BY DEF AllOperations, Idle
    <3> QED
      BY <3>1, IdleFacts DEF CallStates
  <2>3. Become(c, q) /\ user' = user
    BY <1>3 DEF DeliverAnswer
  <2> HIDE DEF call, cookies
  <2>4. /\ q \in CallStates /\ q.stage = "sent" /\ q.op = "logout" /\ ~ q.retry
        /\ ~ q.refreshing /\ q.status = "none" /\ q.setCookies = "keep" /\ q.cookies = cookies
        /\ q.op \in Mutations => q.header = cookies.csrf
    BY <2>1, <2>2, RequestFacts
  <2> HIDE DEF q
  <2>5. calls' \in [ Calls -> CallStates ] /\ calls'[c] = q /\ Others(c)
    BY <1>0, <2>3, <2>4, BecomeFacts
  <2>6. TypeOK'
    BY <1>0, <1>1, <1>2, <2>3, <2>5 DEF TypeOK
  <2>7. CallsSound'
    <3>1. "logout" # None
      BY WebClientAssumption DEF AllOperations
    <3>2. Sound(q)
      BY <2>4, <3>1 DEF Sound
    <3> QED
      BY <1>0, <2>5, <3>2 DEF CallsSound, Others
  <2>8. Screens'
    BY <1>0, <1>3, <2>3, <2>4, <2>5, ScreensKept
  <2>9. ~ kept'
    BY <1>0, <1>1, <1>3 DEF IInv, Kept, Served, Sound
  <2> QED
    BY <2>6, <2>7, <2>8, <2>9 DEF IInv
<1>4. CASE ~ (calls[c].op = "changePassword" /\ calls[c].status = "200")
  <2>1. Settle(c, calls[c].status)
    BY <1>4 DEF DeliverAnswer
  <2>2. /\ TypeOK' /\ CallsSound' /\ Screens' /\ Others(c) /\ calls'[c] = Idle
        /\ user' = UserAfter(calls[c], calls[c].status)
    BY <1>0, <1>1, <1>2, <2>1, SettleFacts
  <2>3. ASSUME kept' PROVE Kept'
    <3>1. Kept /\ Served(calls[c])
      BY <1>1, <2>3 DEF IInv, Kept
    <3>2. calls[c].op # "logout" /\ calls[c].setCookies \in {"keep", "set"}
      BY <1>0, <3>1 DEF Served, CallStates
    <3>3. CASE calls[c].setCookies = "set"
      <4>1. calls[c].op = "login" /\ calls[c].status = "200"
        BY <1>0, <1>1, <3>3 DEF Sound
      <4>2. user' = "in"
        BY <2>2, <4>1 DEF UserAfter
      <4>3. PICK t \in Live : Held(t)
        BY <3>1 DEF Kept
      <4>4. Held(t)' /\ \A d \in Calls \ {c} : ~ calls'[d].refreshing
        BY <1>0, <1>2, <2>2, <3>3, <4>3, IdleFacts, HeldDelivered DEF Live
      <4>5. t \in Live'
        BY <1>1, <4>3 DEF Live
      <4>6. \A d \in Calls : Served(calls'[d])
        BY <2>2, <3>1, IdleFacts DEF Kept, Others
      <4>7. \A d \in Calls : calls'[d].op = None
        BY <2>2, <3>1, <4>1, IdleFacts DEF Kept, Others
      <4>8. \A d, e \in Refreshing' : d = e
        BY <2>2, <4>4, IdleFacts DEF Refreshing
      <4>9. "login" # None
        BY WebClientAssumption DEF AllOperations
      <4> QED
        BY <1>1, <3>1, <4>2, <4>4, <4>5, <4>6, <4>7, <4>8, <4>9 DEF Kept
    <3>4. CASE calls[c].setCookies = "keep"
      <4>1. calls[c].op # "login" /\ calls[c].status # "401"
        BY <1>1, <3>1, <3>4 DEF Served
      <4>2. calls[c].op = "me" => calls[c].status = "200"
        BY <1>1, <3>1, <4>1 DEF Served
      <4>3. user' = "out" => user = "out"
        BY <2>2, <3>2, <4>1, <4>2 DEF UserAfter
      <4>4. active'
        BY <1>1, <3>1 DEF Kept
      <4> QED
        BY <1>0, <1>1, <1>2, <2>2, <3>1, <3>4, <4>1, <4>3, <4>4, IdleFacts, KeptAfterAnswer
    <3> QED
      BY <3>2, <3>3, <3>4
  <2> QED
    BY <2>2, <2>3 DEF IInv
<1> QED
  BY <1>3, <1>4

LEMMA LoseInvariant ==
  ASSUME IInv, NEW c \in Calls, Lose(c)
  PROVE  IInv'
<1>0. /\ TypeOK /\ Sound(calls[c]) /\ calls[c] \in CallStates
      /\ kept \in BOOLEAN /\ jar \in Jars
  BY DEF IInv, CallsSound, TypeOK
<1>1. /\ calls[c].stage # "idle" /\ Settle(c, "none")
      /\ kept' = (kept /\ ~ calls[c].refreshing /\ calls[c].op \notin {"me", "login"})
      /\ UNCHANGED << sessions, active, jar >>
  BY DEF Lose, Waiting, server
<1>2. /\ TypeOK' /\ CallsSound' /\ Screens' /\ Others(c) /\ calls'[c] = Idle
      /\ user' = UserAfter(calls[c], "none")
  BY <1>0, <1>1, SettleFacts
<1>3. ASSUME kept' PROVE Kept'
  <2>1. Kept /\ Served(calls[c]) /\ ~ calls[c].refreshing /\ calls[c].op \notin {"me", "login"}
    BY <1>0, <1>1, <1>3 DEF IInv, Kept
  <2>2. calls[c].setCookies # "set"
    BY <1>0, <2>1 DEF Sound
  <2>3. user' = user
    BY <1>2, <2>1 DEF UserAfter, Served
  <2>4. active'
    BY <1>1, <2>1 DEF Kept
  <2> QED
    BY <1>0, <1>1, <1>2, <2>1, <2>2, <2>3, <2>4, IdleFacts, KeptAfterAnswer
<1> QED
  BY <1>2, <1>3 DEF IInv

-----------------------------------------------------------------------------

LEMMA ReloadInvariant ==
  ASSUME IInv, Reload
  PROVE  IInv'
<1>1. /\ \A c \in Calls : calls[c] = Idle
      /\ user' = "loading"
      /\ UNCHANGED << sessions, active, jar, calls, kept >>
  BY DEF Reload, server
<1>2. TypeOK' /\ CallsSound'
  BY <1>1 DEF IInv, TypeOK, CallsSound
<1>3. Screens'
  BY <1>1, IdleFacts, WebClientAssumption DEF Screens, AllOperations
<1>4. kept' => Kept'
  BY <1>1 DEF IInv, Kept, Live, Held, Refreshing
<1> QED
  BY <1>2, <1>3, <1>4 DEF IInv

LEMMA ExpireInvariant ==
  ASSUME IInv, ExpireAccess
  PROVE  IInv'
<1>1. /\ jar' = [ jar EXCEPT !.access = FALSE ]
      /\ UNCHANGED << sessions, active, user, calls, kept >>
  BY DEF ExpireAccess, server
<1>2. jar' \in Jars /\ jar'.refresh = jar.refresh
  BY <1>1 DEF IInv, TypeOK, Jars
<1>3. TypeOK' /\ CallsSound' /\ Screens'
  BY <1>1, <1>2 DEF IInv, TypeOK, CallsSound, Screens
<1>4. kept' => Kept'
  BY <1>1, <1>2 DEF IInv, Kept, Live, Held, Refreshing
<1> QED
  BY <1>3, <1>4 DEF IInv

LEMMA EndsElsewhereInvariant ==
  ASSUME IInv, EndSessions \/ Deactivate
  PROVE  IInv'
<1>1. /\ Revoke(Tokens) /\ kept' = FALSE /\ active' \in BOOLEAN
      /\ UNCHANGED << jar, user, calls >>
  BY DEF EndSessions, Deactivate, IInv, TypeOK
<1>2. TypeOK'
  BY <1>1, RevokeFacts DEF IInv, TypeOK
<1>3. CallsSound' /\ Screens'
  BY <1>1 DEF IInv, CallsSound, Screens
<1> QED
  BY <1>1, <1>2, <1>3 DEF IInv

LEMMA NextInvariant == IInv /\ [Next]_vars => IInv'
<1> SUFFICES ASSUME IInv, [Next]_vars PROVE IInv'
  OBVIOUS
<1>1. CASE UNCHANGED vars
  BY <1>1 DEF vars, IInv, TypeOK, CallsSound, Screens, Kept, Live, Held, Refreshing
<1>2. ASSUME NEW c \in Calls, NEW op \in AllOperations, Start(c, op) PROVE IInv'
  BY <1>2, StartInvariant
<1>3. ASSUME NEW c \in Calls, Serve(c) PROVE IInv'
  BY <1>3, LoginInvariant, PageInvariant, MeInvariant, LogoutInvariant, ChangePasswordInvariant,
     RefreshInvariant, RotateInvariant, BadInvariant DEF Serve
<1>4. ASSUME NEW c \in Calls, Deliver(c) \/ Lose(c) PROVE IInv'
  BY <1>4, UnauthorizedInvariant, DeliverRefreshInvariant, AnswerInvariant, LoseInvariant
     DEF Deliver
<1>5. CASE Reload \/ ExpireAccess \/ EndSessions \/ Deactivate
  BY <1>5, ReloadInvariant, ExpireInvariant, EndsElsewhereInvariant
<1> QED
  BY <1>1, <1>2, <1>3, <1>4, <1>5 DEF Next

\* IInv holds in every reachable state.
LEMMA Invariant == Spec => []IInv
BY InitInvariant, NextInvariant, PTL DEF Spec

-----------------------------------------------------------------------------
(***************************************************************************)
(* The theorems.                                                           *)
(***************************************************************************)

\* The types, for any number of calls of apiRequest under way at once.
THEOREM WebClientTypeCorrect == Spec => []TypeOK
<1>1. IInv => TypeOK
  BY DEF IInv
<1> QED
  BY <1>1, Invariant, PTL

\* The refresh cookie of the tab, or the one an answer is bringing, is that of a
\* live session until something of KeptSessionLives's list happens.
THEOREM KeptSessionLivesAlways == Spec => []KeptSessionLives
<1>1. IInv => KeptSessionLives
  BY DEF IInv, KeptSessionLives, Kept, Held, Carries
<1> QED
  BY <1>1, Invariant, PTL

\* A retried request carries the CSRF token that came with the refresh, however
\* many calls refresh at once.
THEOREM CsrfTokenFitsAlways == Spec => []CsrfTokenFits
<1>1. IInv => CsrfTokenFits
  BY DEF IInv, CallsSound, Sound, CsrfTokenFits
<1> QED
  BY <1>1, Invariant, PTL

\* Only the end of a call, or a reload, changes what the user sees.
LEMMA UserChanges ==
  ASSUME [Next]_vars
  PROVE  \/ user' = user \/ user' = "loading"
         \/ \E c \in Calls : \E status : Settle(c, status)
<1>1. CASE UNCHANGED vars
  BY <1>1 DEF vars
<1>2. ASSUME NEW c \in Calls, NEW op \in AllOperations, Start(c, op) PROVE user' = user
  BY <1>2 DEF Start
<1>3. ASSUME NEW c \in Calls, Serve(c) PROVE user' = user
  BY <1>3 DEF Serve, ServeLogin, ServePage, ServeMe, ServeLogout, ServeChangePassword,
              ServeRefresh, Rotate, ServeBadly
<1>4. ASSUME NEW c \in Calls, Deliver(c) \/ Lose(c)
      PROVE  user' = user \/ \E status : Settle(c, status)
  BY <1>4 DEF Deliver, DeliverUnauthorized, DeliverRefresh, DeliverAnswer, Lose
<1>5. CASE Reload \/ ExpireAccess \/ EndSessions \/ Deactivate
  BY <1>5 DEF Reload, ExpireAccess, EndSessions, Deactivate
<1> QED
  BY <1>1, <1>2, <1>3, <1>4, <1>5 DEF Next

\* Nothing but what ends "kept" sends a signed-in user to the login page: not an
\* expired access token, not a retry, not the answers of other calls.
THEOREM StaysSignedInAlways == Spec => StaysSignedIn
<1>1. IInv /\ IInv' /\ [Next]_vars => (kept /\ kept' /\ user # "out" => user' # "out")
  <2> SUFFICES ASSUME IInv, IInv', [Next]_vars, kept', user # "out", user' = "out" PROVE FALSE
    OBVIOUS
  <2>1. PICK c \in Calls : \E status : Settle(c, status)
    BY UserChanges
  <2>2. calls' = [ calls EXCEPT ![c] = Idle ]
    BY <2>1 DEF Settle, Become
  <2>3. PICK d \in Calls : calls'[d].op = "login"
    BY DEF IInv, Kept
  <2>4. calls[d].op = "login"
    <3>1. "login" # None
      BY WebClientAssumption DEF AllOperations
    <3> QED
      BY <2>2, <2>3, <3>1, IdleFacts DEF IInv, TypeOK
  <2> QED
    BY <2>4 DEF IInv, Screens
<1> QED
  BY <1>1, Invariant, PTL DEF Spec, StaysSignedIn

=============================================================================
