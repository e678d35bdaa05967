CONSTANTS
  Users = {u1}
  Requests = {r1, r2}
  Tokens = {t1, t2}
  ResetTokens = {k1}
  MaxPassword = 2
  Ops = {"login", "refresh", "logout", "revokeAll", "reset", "change", "admin", "fail"}
  None = None
SPECIFICATION FairSpec
CHECK_DEADLOCK FALSE
INVARIANTS
  TypeOK
  OutlivingSessionsWereInFlight
  DeactivatedSessionsWereInFlight
PROPERTIES
  RefinesSessionLife
  LaterConfirmationsFail
  RequestsFinish
