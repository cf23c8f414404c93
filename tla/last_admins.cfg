CONSTANTS
  None = None
  u1 = u1
  u2 = u2
  UserIds = {u1, u2}
  Tokens = {t1, t2}
  Passwords = {"first", "second"}
  Handlers = {h1, h2}
  Operations = {"login", "deactivate"}
  InitialUsers <- TwoAdmins
  Failures = FALSE
SPECIFICATION Spec
SYMMETRY Symmetric
PROPERTIES LastAdminStays
