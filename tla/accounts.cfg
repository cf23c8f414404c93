CONSTANTS
  None = None
  u1 = u1
  u2 = u2
  UserIds = {u1, u2}
  Tokens = {t1, t2}
  Passwords = {"first"}
  Handlers = {h1, h2}
  Operations = {"login", "refresh", "createUser", "updateUser", "deactivate"}
  InitialUsers <- OneAdmin
  Failures = TRUE
SPECIFICATION Spec
VIEW WithoutAuthLog
SYMMETRY Symmetric
INVARIANTS TypeOK DeactivatedSignedOut AuditTellsUsers
