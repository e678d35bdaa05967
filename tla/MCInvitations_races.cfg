SPECIFICATION Spec
CONSTANTS
  Invites = {i1, i2}
  Orgs = {o1}
  Platform = Platform
  Emails = {e1}
  Requests = {r1, r2, r3}
  Ops = {"send", "inviteAdmin", "platform", "cancel", "resend", "sso", "org", "time", "fail"}
  None = None
SYMMETRY Symmetry
INVARIANTS TypeOK OneInvitationPerAccount AcceptancesUndoneOnlyInFlight
PROPERTIES RefinesOneShot
CHECK_DEADLOCK FALSE
