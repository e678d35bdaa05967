SPECIFICATION Spec
CONSTANTS
  a1 = a1
  a2 = a2
  p1 = p1
  p2 = p2
  Plans = {p1}
  Activities = {a1, a2, a3, a4}
  PlanOf <- OnePlan
  Requests = {r1, r2}
  MaxDepth = 4
  OneCreator = TRUE
  Ops = {"createLink", "deleteActivity"}
  None = None
SYMMETRY ActivitySymmetry
PROPERTIES RefinesLinkDag
INVARIANT Acyclic
CHECK_DEADLOCK FALSE
