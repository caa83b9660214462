SPECIFICATION Spec
CONSTANTS
  c1 = c1
  c2 = c2
  p1 = p1
  p2 = p2
  p3 = p3
  left = left
  right = right
  None = none
  Plan <- ThreePlans
  Targets <- TwoTargets
  Client <- TwoClients
  MaxFault = 1
SYMMETRY ApprovalSymmetry
INVARIANTS CheckpointFollowsDecision PendingIsResumable TablesAgree AuditExplainsApproval PagesAreUsable
PROPERTIES NamedRevisionHolds KeepsApprovalContract
CHECK_DEADLOCK FALSE
