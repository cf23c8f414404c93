---------------------------- MODULE HttpPipeline ----------------------------
(***************************************************************************)
(* The order in which app.ts and the routers judge a request: the general  *)
(* rate limit, the CSRF token of state-changing methods, the router, the   *)
(* access token, the role, the path, the body.  The first fault found is   *)
(* answered and nothing after it runs.  Most routers authenticate before   *)
(* they look for the path ("path"); the others, and paths that no router   *)
(* takes, answer 404 to anybody ("unknown").                               *)
(***************************************************************************)
EXTENDS Integers, Sequences

Faults == {"limited", "csrf", "unknown", "unauthenticated", "role", "path", "body"}

Checks ==
  << [ fault |-> "limited", status |-> "429" ], [ fault |-> "csrf", status |-> "403" ],
     [ fault |-> "unknown", status |-> "404" ], [ fault |-> "unauthenticated", status |-> "401" ],
     [ fault |-> "role", status |-> "403" ], [ fault |-> "path", status |-> "404" ],
     [ fault |-> "body", status |-> "400" ] >>

\* Mutant: a caller who is not signed in is sent to another page.
JudgementRedirects(faults) == IF "unauthenticated" \in faults THEN "302" ELSE "200"

\* "200" stands for reaching the handler.
Judgement(faults) ==
  IF \A i \in DOMAIN Checks : Checks[i].fault \notin faults THEN "200"
  ELSE Checks[CHOOSE i \in DOMAIN Checks :
                /\ Checks[i].fault \in faults
                /\ \A j \in 1..(i - 1) : Checks[j].fault \notin faults].status

\* csrfProtection: header and cookie present and equal, unless the method changes
\* nothing or the path is login or refresh.
CsrfFault(checked, header, cookie, none) ==
  IF checked /\ (header = none \/ cookie = none \/ header # cookie) THEN {"csrf"} ELSE {}

=============================================================================
