CONSTANTS
  Users = {u1}
  Requests = {r1, r2}
  Tokens = {t1, t2, t3, t4}
  ResetTokens = {k1}
  MaxPassword = 1
  Ops = {"login", "refresh", "logout", "revokeAll", "age", "fail"}
  None = None
SPECIFICATION Spec
SYMMETRY Symmetry
CHECK_DEADLOCK FALSE
INVARIANTS
  OneLiveTokenPerLine
  EndedLinesStayEnded
