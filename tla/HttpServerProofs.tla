-------------------------- MODULE HttpServerProofs --------------------------
(***************************************************************************)
(* Theorems about HttpServer for every set of requests, rate limit and     *)
(* number of signals.                                                      *)
(***************************************************************************)
EXTENDS HttpServer, TLAPS

-----------------------------------------------------------------------------
(***************************************************************************)
(* The inductive invariant: handlers are cut by the exit only, and once    *)
(* the connections have closed nobody waits for one.                       *)
(***************************************************************************)
CutByExit == Running => \A r \in Requests : requests[r].stage # "cut"

NobodyWaits == server = "disconnecting" => Connected = {}

IInv == TypeOK /\ CutByExit /\ NobodyWaits /\ GracefulExitAnswersAll

-----------------------------------------------------------------------------
(***************************************************************************)
(* Lemmas about the operators.                                             *)
(***************************************************************************)

\* The pipeline answers with a status the server knows, whatever is wrong with
\* the request.
LEMMA JudgementIsStatus ==
  ASSUME NEW faults
  PROVE  Judgement(faults) \in {"200", "400", "401", "403", "404", "429"}
<1> DEFINE first(i) == /\ Checks[i].fault \in faults
                       /\ \A j \in 1..(i - 1) : Checks[j].fault \notin faults
<1>1. DOMAIN Checks = 1..7
  BY DEF Checks
<1>2. \A i \in 1..7 : Checks[i].status \in {"400", "401", "403", "404", "429"}
  BY DEF Checks
<1>3. CASE \A i \in DOMAIN Checks : Checks[i].fault \notin faults
  BY <1>3 DEF Judgement
<1>4. CASE \E i \in DOMAIN Checks : Checks[i].fault \in faults
  <2> HIDE DEF Checks
  <2>1. \E i \in 1..7 : first(i)
    <3>1. PICK k \in 1..7 : Checks[k].fault \in faults
      BY <1>1, <1>4
    <3>2. k \in {1, 2, 3, 4, 5, 6, 7}
      BY <3>1
    <3>3. CASE first(1) \/ first(2) \/ first(3)
      BY <3>3
    <3>4. CASE ~ first(1) /\ ~ first(2) /\ ~ first(3)
      <4>1. \A j \in 1..3 : Checks[j].fault \notin faults
        BY <3>4
      <4> QED
        BY <3>1, <3>2, <4>1
    <3> QED
      BY <3>3, <3>4
  <2>2. (CHOOSE i \in 1..7 : first(i)) \in 1..7
    BY <2>1
  <2> QED
    BY <1>1, <1>2, <1>4, <2>2 DEF Judgement
<1> QED
  BY <1>3, <1>4

\* An answer leaves every other request alone and adds to one of the counters.
LEMMA RespondFacts ==
  ASSUME TypeOK, NEW r \in Requests, NEW status \in Statuses, Respond(r, status)
  PROVE  /\ requests' \in [ Requests -> RequestStates ]
         /\ responses' \in [ {"2xx", "4xx", "5xx"} -> Nat ]
         /\ requests'[r].stage \in {"answered", "unheard"}
         /\ \A q \in Requests \ {r} : requests'[q] = requests[q]
<1>1. StatusClass(status) \in {"2xx", "4xx", "5xx"}
  BY DEF StatusClass
<1>2. requests' \in [ Requests -> RequestStates ]
  BY DEF Respond, TypeOK, RequestStates
<1>3. responses' \in [ {"2xx", "4xx", "5xx"} -> Nat ]
  BY <1>1 DEF Respond, TypeOK
<1>4. requests'[r].stage \in {"answered", "unheard"}
  BY DEF Respond, TypeOK, RequestStates
<1> QED
  BY <1>2, <1>3, <1>4 DEF Respond, TypeOK

-----------------------------------------------------------------------------
(***************************************************************************)
(* The invariant.                                                          *)
(***************************************************************************)

LEMMA InitInvariant == Init => IInv
  BY HttpServerAssumption
  DEF Init, IInv, TypeOK, RequestStates, CutByExit, NobodyWaits, Running, Connected, Handling,
      GracefulExitAnswersAll

\* Steps of a request: no handler starts once every connection is closed, and none
\* that has ended waits.
LEMMA RequestStepInvariant ==
  ASSUME IInv, NEW r \in Requests, Arrive(r) \/ Finish(r) \/ ClientGone(r)
  PROVE  IInv'
<1>1. CASE Arrive(r)
  <2>1. PICK faults \in SUBSET (Faults \ {"limited"}) :
          LET status == Judgement(IF hits' > Limit THEN faults \cup {"limited"} ELSE faults) IN
          IF status = "200"
            THEN /\ requests' = [ requests EXCEPT ![r].stage = "handling" ]
                 /\ UNCHANGED responses
            ELSE Respond(r, status)
    BY <1>1 DEF Arrive
  <2> DEFINE status == Judgement(IF hits' > Limit THEN faults \cup {"limited"} ELSE faults)
  <2>2. status \in Statuses
    BY JudgementIsStatus DEF Statuses
  <2> HIDE DEF status
  <2>3. CASE status = "200"
    <3>1. /\ requests' = [ requests EXCEPT ![r].stage = "handling" ]
          /\ UNCHANGED responses
      BY <2>1, <2>3 DEF status
    <3> QED
      BY <1>1, <3>1
      DEF Arrive, process, IInv, TypeOK, RequestStates, CutByExit, NobodyWaits, Running, Connected,
          Handling, GracefulExitAnswersAll
  <2>4. CASE status # "200"
    <3>1. Respond(r, status)
      BY <2>1, <2>4 DEF status
    <3>2. /\ requests' \in [ Requests -> RequestStates ]
          /\ responses' \in [ {"2xx", "4xx", "5xx"} -> Nat ]
          /\ requests'[r].stage \in {"answered", "unheard"}
          /\ \A q \in Requests \ {r} : requests'[q] = requests[q]
      BY <2>2, <3>1, RespondFacts DEF IInv
    <3> QED
      BY <1>1, <3>2
      DEF Arrive, process, IInv, TypeOK, CutByExit, NobodyWaits, Running, Connected, Handling,
          GracefulExitAnswersAll
  <2> QED
    BY <2>3, <2>4
<1>2. CASE Finish(r)
  <2>1. PICK status \in Statuses : Respond(r, status)
    BY <1>2 DEF Finish, Statuses
  <2>2. /\ requests' \in [ Requests -> RequestStates ]
        /\ responses' \in [ {"2xx", "4xx", "5xx"} -> Nat ]
        /\ requests'[r].stage \in {"answered", "unheard"}
        /\ \A q \in Requests \ {r} : requests'[q] = requests[q]
    BY <2>1, RespondFacts DEF IInv
  <2> QED
    BY <1>2, <2>2
    DEF Finish, process, IInv, TypeOK, CutByExit, NobodyWaits, Running, Connected, Handling,
        GracefulExitAnswersAll
<1>3. CASE ClientGone(r)
  BY <1>3
  DEF ClientGone, process, metrics, IInv, TypeOK, RequestStates, CutByExit, NobodyWaits, Running,
      Connected, Handling, GracefulExitAnswersAll
<1> QED
  BY <1>1, <1>2, <1>3

\* An exit with code 0 finds nobody waiting.
LEMMA ExitInvariant ==
  ASSUME IInv, Running, NEW code \in {0, 1}, Exit(code), code = 0 => Connected = {}
  PROVE  IInv'
<1>1. TypeOK'
  BY DEF Exit, metrics, IInv, TypeOK, RequestStates, Handling
<1>2. ASSUME code = 0, NEW r \in Requests, requests'[r].stage = "cut"
      PROVE  ~ requests'[r].client
  <2>1. r \in Handling
    BY <1>2 DEF Exit, IInv, CutByExit
  <2>2. ~ requests[r].client
    BY <1>2, <2>1 DEF Connected
  <2> QED
    BY <2>1, <2>2 DEF Exit, IInv, TypeOK, RequestStates
<1> QED
  BY <1>1, <1>2 DEF Exit, IInv, CutByExit, NobodyWaits, Running, GracefulExitAnswersAll

LEMMA NextInvariant ==
  ASSUME IInv, [Next]_vars
  PROVE  IInv'
<1> USE HttpServerAssumption
<1>1. CASE \E r \in Requests : Arrive(r) \/ Finish(r) \/ ClientGone(r)
  BY <1>1, RequestStepInvariant
<1>2. CASE WindowPasses
  BY <1>2
  DEF WindowPasses, process, metrics, IInv, TypeOK, CutByExit, NobodyWaits, Running, Connected,
      Handling, GracefulExitAnswersAll
<1>3. CASE Shutdown
  BY <1>3
  DEF Shutdown, metrics, IInv, TypeOK, CutByExit, NobodyWaits, Running, Connected, Handling,
      GracefulExitAnswersAll
<1>4. CASE Close
  BY <1>4
  DEF Close, metrics, IInv, TypeOK, CutByExit, NobodyWaits, Running, Connected, Handling,
      GracefulExitAnswersAll
<1>5. CASE Disconnected
  <2>1. PICK code \in {exitCode, 1} : Exit(code)
    BY <1>5 DEF Disconnected
  <2>2. Running /\ Connected = {} /\ code \in {0, 1}
    BY <1>5 DEF Disconnected, Running, IInv, NobodyWaits, TypeOK
  <2> QED
    BY <2>1, <2>2, ExitInvariant
<1>6. CASE ForceExit
  BY <1>6, ExitInvariant DEF ForceExit
<1>7. CASE ListenFails
  BY <1>7, ExitInvariant DEF ListenFails, Running
<1>8. CASE UNCHANGED vars
  BY <1>8
  DEF vars, IInv, TypeOK, CutByExit, NobodyWaits, Running, Connected, Handling,
      GracefulExitAnswersAll
<1> QED
  BY <1>1, <1>2, <1>3, <1>4, <1>5, <1>6, <1>7, <1>8 DEF Next, Gone

LEMMA Invariant == Spec => []IInv
<1>1. IInv /\ [Next]_vars => IInv'
  BY NextInvariant
<1> QED
  BY InitInvariant, <1>1, PTL DEF Spec

-----------------------------------------------------------------------------

\* The process, its requests and its counters keep their types.
THEOREM ServerTypeCorrect == Spec => []TypeOK
<1>1. IInv => TypeOK
  BY DEF IInv
<1> QED
  BY Invariant, <1>1, PTL

\* Exit code 0 leaves nobody waiting, for any number of requests and signals in
\* any order with clients that leave and handlers that answer (server.ts 28-52).
THEOREM GracefulExit == Spec => []GracefulExitAnswersAll
<1>1. IInv => GracefulExitAnswersAll
  BY DEF IInv
<1> QED
  BY Invariant, <1>1, PTL

=============================================================================
