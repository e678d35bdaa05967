\* One record with two edits and one draft, two passes, one fault of each kind.
SPECIFICATION FairSpec
CONSTANTS
  Docs = {doc}
  Drafts = {draft}
  Passes = {pass1, pass2}
  MaxEdits = 2
  MaxFaults = 1
  Ops <- AllOps
  None = None
INVARIANTS
  TypeOK
  CapturedWritesSurvive
  ExtraCopiesHaveCause
  PassesSendInOrder
  OnePassUnlessReconnected
PROPERTIES
  SyncingEnds
