----------------------------- MODULE HttpServer -----------------------------
(***************************************************************************)
(* One process of the API: app.ts answers requests, server.ts shuts the    *)
(* process down.  The pipeline of middleware judges a request at once; a   *)
(* handler then works with the database, awaiting each statement, until it *)
(* answers.  A signal closes the listening socket; when the last           *)
(* connection is gone the process disconnects from the database and exits, *)
(* unless the timer of shutdown() is faster.                               *)
(*                                                                         *)
(* A handler goes on after its client has gone, and the connection of such *)
(* a client no longer holds the server open.  A connection that is kept    *)
(* alive brings further requests while the server closes.                  *)
(***************************************************************************)
EXTENDS Integers, FiniteSets, HttpPipeline

CONSTANTS
  Requests,             \* each arrives at most once
  Limit,                \* GENERAL_RATE_LIMIT_MAX_REQUESTS
  MaxSignals            \* bound: SIGINT and SIGTERM received

VARIABLES
  server,               \* "listening", "closing", "disconnecting", "exited"
  exitCode,             \* process.exitCode
  timers,               \* armed forceExit timers
  requests,
  hits,                 \* the limiter's count in the present window
  totalRequests, responses   \* metrics.ts

vars == << server, exitCode, timers, requests, hits, totalRequests, responses >>
process == << server, exitCode, timers >>
metrics == << totalRequests, responses >>

Statuses == {"200", "400", "401", "403", "404", "409", "429", "500", "503"}
StatusClass(status) ==
  IF status = "200" THEN "2xx" ELSE IF status \in {"500", "503"} THEN "5xx" ELSE "4xx"

\* client: whether the connection is still open; status: the answer.
RequestStates ==
  [ stage : {"new", "handling", "answered", "unheard", "cut"}, client : BOOLEAN,
    status : Statuses \cup {"none"} ]

ASSUME HttpServerAssumption == Limit \in Nat /\ MaxSignals \in Nat

-----------------------------------------------------------------------------

Running == server # "exited"
Handling == { r \in Requests : requests[r].stage = "handling" }
Connected == { r \in Handling : requests[r].client }
KeptAlive == { r \in Requests : requests[r].stage = "answered" }

\* The response is written; "finish" comes only if somebody is there to take it.
Respond(r, status) ==
  /\ requests' = [ requests EXCEPT ![r].status = status,
                     ![r].stage = IF requests[r].client THEN "answered" ELSE "unheard" ]
  /\ responses' = IF requests[r].client
                    THEN [ responses EXCEPT ![StatusClass(status)] = @ + 1 ] ELSE responses

(***************************************************************************)
(* A request comes in and passes the pipeline.  The limiter counts every   *)
(* request, health probes too.  Once the socket is closed it comes over a  *)
(* connection that is still open.                                          *)
(***************************************************************************)
Arrive(r) ==
  /\ \/ server = "listening"
     \/ server = "closing" /\ Connected \cup KeptAlive # {}
  /\ requests[r].stage = "new"
  /\ hits' = hits + 1
  /\ totalRequests' = totalRequests + 1
  /\ \E faults \in SUBSET (Faults \ {"limited"}) :
       LET status == Judgement(IF hits' > Limit THEN faults \cup {"limited"} ELSE faults) IN
       IF status = "200"
         THEN /\ requests' = [ requests EXCEPT ![r].stage = "handling" ]
              /\ UNCHANGED responses
         ELSE Respond(r, status)
  /\ UNCHANGED process

\* The handler ends: its answer, an AppError, NOT_READY or what errorHandler
\* makes of any other error.  Login and refresh answer 401 themselves, a report
\* of another role's 403.
Finish(r) ==
  /\ r \in Handling
  /\ \E status \in Statuses \ {"429"} : Respond(r, status)
  /\ UNCHANGED << process, hits, totalRequests >>

ClientGone(r) ==
  /\ r \in Connected
  /\ requests' = [ requests EXCEPT ![r].client = FALSE ]
  /\ UNCHANGED << process, hits, metrics >>

\* Mutant: a new window takes the limit off the count.
WindowPassesByLimit ==
  /\ Running /\ hits > 0
  /\ hits' = hits - Limit
  /\ UNCHANGED << process, requests, metrics >>

WindowPasses ==
  /\ Running /\ hits > 0
  /\ hits' = 0
  /\ UNCHANGED << process, requests, metrics >>

-----------------------------------------------------------------------------
(***************************************************************************)
(* server.ts                                                               *)
(***************************************************************************)
\* process.exit(): handlers that have not answered end where they are.
Exit(code) ==
  /\ server' = "exited"
  /\ exitCode' = code
  /\ requests' = [ r \in Requests |->
                     IF r \in Handling THEN [ requests[r] EXCEPT !.stage = "cut" ]
                     ELSE requests[r] ]
  /\ UNCHANGED << timers, hits, metrics >>

\* Mutant: no timer is armed.
ShutdownUntimed ==
  /\ Running /\ server = "listening"
  /\ server' = "closing"
  /\ UNCHANGED << exitCode, timers, requests, hits, metrics >>

(***************************************************************************)
(* shutdown(signal): arms a timer and closes the server.  A second signal  *)
(* arms another, and its close() reports that the server is not running    *)
(* any more, after the close that is under way: exit code 1.               *)
(***************************************************************************)
Shutdown ==
  /\ Running /\ timers < MaxSignals
  /\ timers' = timers + 1
  /\ server' = IF server = "listening" THEN "closing" ELSE server
  /\ exitCode' = IF server = "listening" THEN exitCode ELSE 1
  /\ UNCHANGED << requests, hits, metrics >>

\* Mutant: the database is left while connections are open.
CloseEarly ==
  /\ server = "closing"
  /\ server' = "disconnecting"
  /\ UNCHANGED << exitCode, timers, requests, hits, metrics >>

\* The "close" event: no connection is left, the idle ones have timed out.
\* prisma.$disconnect() begins.
Close ==
  /\ server = "closing"
  /\ Connected = {}
  /\ server' = "disconnecting"
  /\ UNCHANGED << exitCode, timers, requests, hits, metrics >>

\* $disconnect() is over, with an error or without.
Disconnected ==
  /\ server = "disconnecting"
  /\ \E code \in {exitCode, 1} : Exit(code)

ForceExit == Running /\ timers > 0 /\ Exit(1)

\* EADDRINUSE, EACCES or another error of the listening socket.
ListenFails ==
  /\ server = "listening"
  /\ totalRequests = 0
  /\ Exit(1)

\* The process is gone; nothing happens any more.
Gone == server = "exited" /\ UNCHANGED vars

Init ==
  /\ server = "listening"
  /\ exitCode = 0
  /\ timers = 0
  /\ requests = [ r \in Requests |-> [ stage |-> "new", client |-> TRUE, status |-> "none" ] ]
  /\ hits = 0
  /\ totalRequests = 0
  /\ responses = [ class \in {"2xx", "4xx", "5xx"} |-> 0 ]

Next ==
  \/ \E r \in Requests : Arrive(r) \/ Finish(r) \/ ClientGone(r)
  \/ WindowPasses
  \/ Shutdown \/ Close \/ Disconnected \/ ForceExit \/ ListenFails \/ Gone

(***************************************************************************)
(* Node runs a timer that has passed and the listeners of "close".  A      *)
(* handler may wait for ever.                                              *)
(***************************************************************************)
Spec == Init /\ [][Next]_vars /\ WF_vars(ForceExit) /\ WF_vars(Close)

-----------------------------------------------------------------------------
(***************************************************************************)
(* Properties                                                              *)
(***************************************************************************)

TypeOK ==
  /\ server \in {"listening", "closing", "disconnecting", "exited"}
  /\ exitCode \in {0, 1}
  /\ timers \in 0..MaxSignals
  /\ requests \in [ Requests -> RequestStates ]
  /\ hits \in Nat /\ totalRequests \in Nat
  /\ responses \in [ {"2xx", "4xx", "5xx"} -> Nat ]

\* Exit code 0 means that every request whose client waited for it was
\* answered: only a handler that its client left is cut half way by a graceful
\* shutdown (server.ts 28-52).
GracefulExitAnswersAll ==
  server = "exited" /\ exitCode = 0 =>
    \A r \in Requests : requests[r].stage = "cut" => ~ requests[r].client

\* A signal ends the process, even if a handler never answers.
ShutdownEnds == server = "closing" ~> server = "exited"

=============================================================================
