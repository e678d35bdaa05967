CONSTANTS
  Users = {u1}
  Requests = {r1, r2}
  Tokens = {t1, t2}
  ResetTokens = {k1}
  MaxPassword = 1
  Ops = {"login", "refresh", "reset"}
  None = None
SPECIFICATION Spec
SYMMETRY Symmetry
CHECK_DEADLOCK FALSE
INVARIANT ResetLogsOutEverywhere
