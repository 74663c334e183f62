SPECIFICATION Spec
CONSTANTS
  i1 = i1
  w1 = w1
  w2 = w2
  r1 = r1
  r2 = r2
  Invoices <- MCInvoices
  FaceValue <- MCFaceValue
  AmlThreshold = 5
  InitialUsed = {0, 10}
  InitialScores = {10, 98}
  Amounts = {5}
  LateDays <- MCLateDays
  OldRows <- MCOldRows
  Sweeps <- MCSweeps
  MonitorAttempts = 3
  Requests <- MCRequests
  SystemIsUser = TRUE
  MayFail = TRUE
CHECK_DEADLOCK FALSE
INVARIANTS
  CollectionsSound
PROPERTIES
  InvoiceForward
  ImplementsRepayment
