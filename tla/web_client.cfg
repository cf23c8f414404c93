CONSTANTS
  Calls = {c1, c2}
  Tokens = {t1, t2, t3}
  None = None
  Operations = {"login", "logout", "changePassword", "save"}
  Outages = TRUE
  EndedElsewhere = TRUE
SPECIFICATION Spec
INVARIANTS TypeOK KeptSessionLives CsrfTokenFits
PROPERTIES StaysSignedIn EveryCallEnds
