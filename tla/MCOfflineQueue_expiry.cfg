\* A session that ends while writes are queued; nobody signs out.
SPECIFICATION Spec
CONSTANTS
  Docs = {doc}
  Drafts = {draft}
  Passes = {pass1, pass2}
  MaxEdits = 2
  MaxFaults = 1
  Ops <- ExpiryOps
  None = None
PROPERTIES
  QueuedUntilStored
