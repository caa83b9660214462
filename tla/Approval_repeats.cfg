SPECIFICATION FairSpec
CONSTANTS
  c1 = c1
  c2 = c2
  p1 = p1
  p2 = p2
  p3 = p3
  left = left
  right = right
  None = none
  Plan <- TwoPlans
  Targets <- OneTarget
  Client <- TwoClients
  MaxFault = 1
PROPERTIES DecisionReachesCheckpoint EditReachesApproval
CHECK_DEADLOCK FALSE
