SPECIFICATION Spec
CONSTANTS
  Invites = {i1}
  Orgs = {o1}
  Platform = Platform
  Emails = {e1}
  Requests = {r1}
  Ops = {"send"}
  None = None
SYMMETRY Symmetry
PROPERTIES AcceptRefusedForCause
CHECK_DEADLOCK FALSE
