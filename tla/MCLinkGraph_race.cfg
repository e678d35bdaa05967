SPECIFICATION Spec
CONSTANTS
  a1 = a1
  a2 = a2
  p1 = p1
  p2 = p2
  Plans = {p1}
  Activities = {a1, a2}
  PlanOf <- OnePlan
  Requests = {r1, r2}
  MaxDepth = 2
  OneCreator = FALSE
  Ops = {"createLink"}
  None = None
SYMMETRY RequestSymmetry
INVARIANTS Acyclic
CHECK_DEADLOCK FALSE
