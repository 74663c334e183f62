SPECIFICATION MCSpec
CONSTANTS
  i1 = i1
  i2 = i2
  o1 = o1
  o2 = o2
  m1 = m1
  Officers = {o1, o2, m1}
  Management = {m1}
  Invoices = {i1, i2}
  FaceValue <- Tier3Value
  Score <- GoodScore
  AmlFlagged <- NotFlagged
  Reviews <- Decisions
  Threshold = 2
  Faulty = {i1}
INVARIANTS TypeOK ApprovedByQuorum OneApprovalPerOfficer RejectedWithGrounds
PROPERTIES DecisionIsFinal ImplementsHandoff DecisionLands
