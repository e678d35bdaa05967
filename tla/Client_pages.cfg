SPECIFICATION Spec
CONSTANTS
  None = None
  MaxCalls = 2
  MaxLost = 1
  MaxActs = 2
INVARIANTS
  ChaptersTrue BoardTrue CreatedWhereAsked AdminTrue PlansTrue StatusLasts
  KeptUnlessSlipped DraftsNeedApproval KpisTrue GaugesAgree ReportsTrue PagesSettle
  SameIdentity SignedOutMeansOut ExpiryUnseen PagesAllowed OfferedPagesOpen AdvisesOneOrg
CHECK_DEADLOCK FALSE
