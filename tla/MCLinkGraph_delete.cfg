SPECIFICATION Spec
CONSTANTS
  a1 = a1
  a2 = a2
  p1 = p1
  p2 = p2
  Plans = {p1, p2}
  Activities = {a1, a2, a3}
  PlanOf <- TwoPlans
  Requests = {r1, r2}
  MaxDepth = 3
  OneCreator = FALSE
  Ops = {"createActivity", "createLink", "deleteActivity", "deletePlan",
         "deleteLink", "fail"}
  None = None
SYMMETRY RequestSymmetry
INVARIANTS TypeOK StragglersWereInFlight
CHECK_DEADLOCK FALSE
