----------------------------- MODULE WebClient -----------------------------
(***************************************************************************)
(* One browser tab of the web application, its cookies, and the sessions   *)
(* the API keeps for its user: api.ts, AuthProvider.tsx and the pages that *)
(* sign in and out, against auth.controller.ts, cookie.service.ts and the  *)
(* sessions of auth.service.ts.  A call of apiRequest is                   *)
(*                                                                         *)
(*   idle -> sent -> answered -> idle                                      *)
(*                                                                         *)
(* and, when the answer is 401, once more through sent and answered for    *)
(* POST /auth/refresh (which the server handles in two steps, "rotating"   *)
(* in between) and for the retry.  Calls run at once; a request carries    *)
(* the cookies of the moment it is sent, and the browser applies the       *)
(* cookies of an answer when it comes, not when the server writes it.      *)
(***************************************************************************)
EXTENDS Integers, Sequences, FiniteSets, HttpPipeline

CONSTANTS
  Calls,                \* calls of apiRequest under way at once
  Tokens,               \* refresh tokens, each with its CSRF token
  None,
  Operations,           \* what the user and the pages do
  Outages,              \* whether answers may be lost, 429 or 500
  EndedElsewhere        \* whether sessions end by time or by others

VARIABLES
  sessions,             \* AuthSession rows of the user, by refresh token
  active,               \* User.isActive
  jar,                  \* the cookies
  user,                 \* AuthProvider: "loading", "in", "out"
  calls,
  kept                  \* history: signed in, and nothing yet that may end it

vars == << sessions, active, jar, user, calls, kept >>
server == << sessions, active >>

-----------------------------------------------------------------------------

AllOperations == {"me", "login", "logout", "changePassword", "get", "save"}
Mutations == {"logout", "changePassword", "save"}
\* "refused" stands for 400, 404, 409, 429 and 500, which apiRequest treats alike.
Statuses == {"200", "401", "403", "refused", "none"}

Jars == [ access : BOOLEAN, refresh : Tokens \cup {None}, csrf : Tokens \cup {None} ]
EmptyJar == [ access |-> FALSE, refresh |-> None, csrf |-> None ]

\* cookies and header: what the request carried; setCookies: what the answer
\* says of the cookies.
CallStates ==
  [ stage : {"idle", "sent", "rotating", "answered"}, op : AllOperations \cup {None},
    retry : BOOLEAN, refreshing : BOOLEAN, cookies : Jars, header : Tokens \cup {None},
    status : Statuses, setCookies : {"keep", "set", "clear"}, token : Tokens \cup {None} ]

Idle ==
  [ stage |-> "idle", op |-> None, retry |-> FALSE, refreshing |-> FALSE, cookies |-> EmptyJar,
    header |-> None, status |-> "none", setCookies |-> "keep", token |-> None ]

ASSUME WebClientAssumption ==
  /\ None \notin Tokens \cup AllOperations
  /\ Operations \subseteq AllOperations
  /\ Outages \in BOOLEAN /\ EndedElsewhere \in BOOLEAN

-----------------------------------------------------------------------------

Live == { t \in Tokens : sessions[t] = "live" }
Unused == { t \in Tokens : sessions[t] = "unused" }
NewToken == CHOOSE t \in Unused : TRUE
Refreshing == { c \in Calls : calls[c].refreshing }
FreeCall == CHOOSE c \in Calls : calls[c].stage = "idle"
Waiting(c) == calls[c].stage \in {"sent", "rotating", "answered"}
Become(c, call) == calls' = [ calls EXCEPT ![c] = call ]

(***************************************************************************)
(* The browser sends a request with its cookies; apiRequest adds the CSRF  *)
(* cookie as a header unless the method is GET.                            *)
(***************************************************************************)
\* Mutant: the CSRF token is read once per call, and a retry repeats it.
RequestOfOldToken(call, cookies) ==
  [ call EXCEPT !.stage = "sent", !.refreshing = FALSE, !.cookies = cookies, !.status = "none",
                !.setCookies = "keep",
                !.header = IF call.op \notin Mutations THEN None
                           ELSE IF call.refreshing THEN call.cookies.csrf ELSE cookies.csrf ]

Request(call, cookies) ==
  [ call EXCEPT !.stage = "sent", !.refreshing = FALSE, !.cookies = cookies, !.status = "none",
                !.setCookies = "keep",
                !.header = IF call.op \in Mutations THEN cookies.csrf ELSE None ]

\* Whether the third parameter of apiRequest is left at true.
Retries(op) == op # "logout"

\* isLoading, ProtectedRoute and LoginPage: what may be asked in which state.
Offered(op) ==
  \/ op = "me" /\ user = "loading"
  \/ op = "login" /\ user = "out"
  \/ op \in {"logout", "changePassword", "get", "save"} /\ user = "in"

Start(c, op) ==
  /\ calls[c].stage = "idle" /\ c = FreeCall
  /\ op \in Operations \cup {"me"} /\ Offered(op)
  /\ op \in {"me", "login"} => \A d \in Calls : calls[d].op # op
  /\ Become(c, Request([ Idle EXCEPT !.op = op, !.retry = Retries(op) ], jar))
  /\ kept' = (kept /\ op # "logout")
  /\ UNCHANGED << server, jar, user >>

-----------------------------------------------------------------------------
(***************************************************************************)
(* The server                                                              *)
(***************************************************************************)
\* What only the server needs of the request is forgotten.
Answer(c, status, setCookies, token) ==
  Become(c, [ calls[c] EXCEPT !.stage = "answered", !.status = status, !.cookies.access = FALSE,
                              !.cookies.refresh = None, !.header = None,
                              !.setCookies = setCookies, !.token = token ])

Revoke(tokens) ==
  sessions' = [ t \in Tokens |-> IF t \in tokens \cap Live THEN "revoked" ELSE sessions[t] ]

\* requireAuthentication finds the token and an active user.
AuthFault(c) == IF calls[c].cookies.access /\ active THEN {} ELSE {"unauthenticated"}

Judged(c) ==
  Judgement(CsrfFault(calls[c].op \in Mutations, calls[c].header, calls[c].cookies.csrf, None)
              \cup AuthFault(c))

At(c, op) == calls[c].stage = "sent" /\ ~ calls[c].refreshing /\ calls[c].op = op

ServeLogin(c) ==
  /\ At(c, "login")
  /\ \/ /\ Answer(c, "401", "keep", None)
        /\ UNCHANGED << sessions, kept >>
     \/ /\ active /\ Unused # {}
        /\ sessions' = [ sessions EXCEPT ![NewToken] = "live" ]
        /\ Answer(c, "200", "set", NewToken)
        /\ kept' = (\A d \in Calls \ {c} : calls[d] = Idle)
  /\ UNCHANGED << active, jar, user >>

\* The pages' requests, which their handlers may refuse.
ServePage(c) ==
  /\ At(c, "get") \/ At(c, "save")
  /\ \E status \in IF Judged(c) = "200" THEN {"200", "refused"} ELSE {Judged(c)} :
       Answer(c, status, "keep", None)
  /\ UNCHANGED << server, jar, user, kept >>

ServeMe(c) ==
  /\ At(c, "me")
  /\ Answer(c, Judged(c), "keep", None)
  /\ UNCHANGED << server, jar, user, kept >>

ServeLogout(c) ==
  /\ At(c, "logout")
  /\ IF Judged(c) = "200"
       THEN /\ Revoke({calls[c].cookies.refresh})
            /\ Answer(c, "200", "clear", None)
       ELSE /\ Answer(c, Judged(c), "keep", None)
            /\ UNCHANGED sessions
  /\ UNCHANGED << active, jar, user, kept >>

ServeChangePassword(c) ==
  /\ At(c, "changePassword")
  /\ \/ /\ Judged(c) = "200"
        /\ Revoke(Tokens)
        /\ Answer(c, "200", "clear", None)
        /\ kept' = FALSE
     \/ /\ Answer(c, IF Judged(c) = "200" THEN "refused" ELSE Judged(c), "keep", None)
        /\ UNCHANGED << sessions, kept >>
  /\ UNCHANGED << active, jar, user >>

\* refreshSession looks for the session of the cookie.
ServeRefresh(c) ==
  /\ calls[c].stage = "sent" /\ calls[c].refreshing
  /\ IF calls[c].cookies.refresh \in Live /\ active
       THEN Become(c, [ calls[c] EXCEPT !.stage = "rotating" ])
       ELSE Answer(c, "401", "keep", None)
  /\ UNCHANGED << server, jar, user, kept >>

\* The transaction of refreshSession.
Rotate(c) ==
  /\ calls[c].stage = "rotating"
  /\ Unused # {}
  /\ sessions' = [ sessions EXCEPT ![calls[c].cookies.refresh] = "revoked", ![NewToken] = "live" ]
  /\ Answer(c, "200", "set", NewToken)
  /\ UNCHANGED << active, jar, user, kept >>

\* The rate limit, an unexpected error, or the tokens of the model are used up.
ServeBadly(c) ==
  /\ calls[c].stage \in {"sent", "rotating"}
  /\ Outages \/ Unused = {}
  /\ Answer(c, "refused", "keep", None)
  /\ kept' = (kept /\ ~ calls[c].refreshing /\ calls[c].op # "me")
  /\ UNCHANGED << server, jar, user >>

-----------------------------------------------------------------------------
(***************************************************************************)
(* The answer comes                                                        *)
(***************************************************************************)
\* Mutant: the new refresh token is not stored.
CookiesAfterAccessOnly(call) ==
  IF call.setCookies = "set" THEN [ jar EXCEPT !.access = TRUE ]
  ELSE IF call.setCookies = "clear" THEN EmptyJar ELSE jar

\* setAuthCookies and clearAuthCookies
CookiesAfter(call) ==
  IF call.setCookies = "set" THEN [ access |-> TRUE, refresh |-> call.token, csrf |-> call.token ]
  ELSE IF call.setCookies = "clear" THEN EmptyJar ELSE jar

\* What the promise of apiRequest brings about: reloadUser, handleLogin and
\* handleLogout set the user, and a 401 has sent auth:session-expired before.
UserAfter(call, status) ==
  IF call.op = "logout" \/ status = "401" THEN "out"
  ELSE IF call.op \in {"me", "login"} /\ status = "200" THEN "in"
  ELSE IF call.op = "me" THEN "out"
  ELSE user

Settle(c, status) ==
  /\ user' = UserAfter(calls[c], status)
  /\ Become(c, Idle)

MayRefresh(call) == call.status = "401" /\ call.retry /\ call.op # "login"

\* The first 401 of a call that may retry: POST /auth/refresh is sent.  Two
\* refreshes at once are told apart from one.
DeliverUnauthorized(c) ==
  /\ calls[c].stage = "answered" /\ ~ calls[c].refreshing
  /\ MayRefresh(calls[c])
  /\ Become(c, [ calls[c] EXCEPT !.stage = "sent", !.cookies = jar, !.refreshing = TRUE ])
  /\ kept' = (kept /\ Refreshing = {})
  /\ UNCHANGED << server, jar, user >>

\* Mutant: nobody tells the caller that the refresh was refused.
DeliverRefreshGranted(c) ==
  /\ calls[c].stage = "answered" /\ calls[c].refreshing /\ calls[c].status = "200"
  /\ jar' = CookiesAfter(calls[c])
  /\ Become(c, Request([ calls[c] EXCEPT !.retry = FALSE ], CookiesAfter(calls[c])))
  /\ UNCHANGED << server, user, kept >>

\* The answer of the refresh: the call is retried, or ends as it was.
DeliverRefresh(c) ==
  /\ calls[c].stage = "answered" /\ calls[c].refreshing
  /\ jar' = CookiesAfter(calls[c])
  /\ IF calls[c].status = "200"
       THEN /\ Become(c, Request([ calls[c] EXCEPT !.retry = FALSE ], CookiesAfter(calls[c])))
            /\ UNCHANGED user
       ELSE Settle(c, "401")
  /\ UNCHANGED << server, kept >>

\* ChangePasswordPage signs out after the password has changed.
DeliverAnswer(c) ==
  /\ calls[c].stage = "answered" /\ ~ calls[c].refreshing
  /\ ~ MayRefresh(calls[c])
  /\ jar' = CookiesAfter(calls[c])
  /\ IF calls[c].op = "changePassword" /\ calls[c].status = "200"
       THEN /\ Become(c, Request([ Idle EXCEPT !.op = "logout" ], CookiesAfter(calls[c])))
            /\ UNCHANGED user
       ELSE Settle(c, calls[c].status)
  /\ UNCHANGED << server, kept >>

\* fetch rejects: the request or its answer is lost, the cookies with it.
Lose(c) ==
  /\ Outages
  /\ Waiting(c)
  /\ Settle(c, "none")
  /\ kept' = (kept /\ ~ calls[c].refreshing /\ calls[c].op \notin {"me", "login"})
  /\ UNCHANGED << server, jar >>

-----------------------------------------------------------------------------
\* The page is loaded again, when no call is under way.
Reload ==
  /\ user # "loading"
  /\ \A c \in Calls : calls[c] = Idle
  /\ user' = "loading"
  /\ UNCHANGED << server, jar, calls, kept >>

\* ACCESS_TOKEN_TTL_MINUTES: the token and its cookie expire together.
ExpireAccess ==
  /\ jar.access
  /\ jar' = [ jar EXCEPT !.access = FALSE ]
  /\ UNCHANGED << server, user, calls, kept >>

\* REFRESH_TOKEN_TTL_DAYS, a reset password or the user's other devices.
EndSessions ==
  /\ EndedElsewhere
  /\ Live # {}
  /\ Revoke(Tokens)
  /\ kept' = FALSE
  /\ UNCHANGED << active, jar, user, calls >>

Deactivate ==
  /\ EndedElsewhere
  /\ active
  /\ active' = FALSE
  /\ Revoke(Tokens)
  /\ kept' = FALSE
  /\ UNCHANGED << jar, user, calls >>

Init ==
  /\ sessions = [ t \in Tokens |-> "unused" ]
  /\ active = TRUE
  /\ jar = EmptyJar
  /\ user = "loading"
  /\ calls = [ c \in Calls |-> Idle ]
  /\ kept = FALSE

Serve(c) ==
  \/ ServeLogin(c) \/ ServePage(c) \/ ServeMe(c) \/ ServeLogout(c) \/ ServeChangePassword(c)
  \/ ServeRefresh(c) \/ Rotate(c) \/ ServeBadly(c)

Deliver(c) == DeliverUnauthorized(c) \/ DeliverRefresh(c) \/ DeliverAnswer(c)

Mount == \E c \in Calls : Start(c, "me")

Next ==
  \/ \E c \in Calls :
       \/ \E op \in AllOperations : Start(c, op)
       \/ Serve(c) \/ Deliver(c) \/ Lose(c)
  \/ Reload \/ ExpireAccess \/ EndSessions \/ Deactivate

(***************************************************************************)
(* The server answers every request (the awaits of its handlers are        *)
(* answered, see Bookings and Accounts), the browser hands answers on, and *)
(* AuthProvider's effect runs.  Users do what they like.                   *)
(***************************************************************************)
Spec ==
  /\ Init /\ [][Next]_vars
  /\ \A c \in Calls : WF_vars(Serve(c)) /\ WF_vars(Deliver(c))
  /\ WF_vars(Mount)

-----------------------------------------------------------------------------
(***************************************************************************)
(* Properties                                                              *)
(***************************************************************************)

TypeOK ==
  /\ sessions \in [ Tokens -> {"unused", "live", "revoked"} ]
  /\ active \in BOOLEAN
  /\ jar \in Jars
  /\ user \in {"loading", "in", "out"}
  /\ calls \in [ Calls -> CallStates ]
  /\ kept \in BOOLEAN

\* A user stays signed in through expired access tokens, retries and reloads
\* until they sign out or change the password, the session ends elsewhere, a
\* refresh is lost or refused, two refreshes meet (api.ts 50-65), or GET /auth/me
\* itself, which a reload asks, is lost or answered 429 or 500: reloadUser takes
\* any failure for a signed-out user (AuthProvider.tsx 14-16).
StaysSignedIn ==
  [][ kept /\ kept' /\ user # "out" => user' # "out" ]_vars

\* As long as nothing of that happens (kept) the refresh cookie, or the one on its way,
\* is that of a live session (auth.service.ts 177-205).
Carries(t) ==
  jar.refresh = t \/ \E c \in Calls : calls[c].setCookies = "set" /\ calls[c].token = t

KeptSessionLives == kept => \E t \in Live : Carries(t)

\* No state-changing request of a signed-in user is refused for its CSRF token:
\* a retry carries the token that came with the refresh (api.ts 42-60).
CsrfTokenFits ==
  \A c \in Calls :
    calls[c].stage = "answered" /\ calls[c].status = "403" => calls[c].cookies.csrf = None

\* Every call ends, whatever is answered: one refresh, one retry (api.ts 53-62).
EveryCallEnds == \A c \in Calls : calls[c].stage # "idle" ~> calls[c].stage = "idle"

=============================================================================
