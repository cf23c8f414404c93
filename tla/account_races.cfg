CONSTANTS
  None = None
  u1 = u1
  u2 = u2
  UserIds = {u1, u2}
  Tokens = {t1, t2, t3}
  Passwords = {"first", "second"}
  Handlers = {h1, h2}
  Operations = {"login", "refresh", "logout", "activate", "changePassword", "resetPassword"}
  InitialUsers <- OneAdmin
  Failures = TRUE
SPECIFICATION Spec
VIEW WithoutLogs
SYMMETRY Symmetric
INVARIANTS RotationKeepsOwner SessionsKnowPassword
PROPERTIES SignedOutStaysOut ImplementsSignIns
