SPECIFICATION MCSpec
CONSTANTS
  i1 = i1
  j1 = j1
  j2 = j2
  e1 = e1
  e2 = e2
  m1 = m1
  m2 = m2
  m3 = m3
  Invoices = {i1}
  Managers = {m1, m2, m3}
  Jobs = {j1, j2}
  JobInvoice <- DuplicateJobs
  Executions = {e1, e2}
  ExecInvoice <- TwoExecutions
  MaxAttempts = 3
  WorkerSlots = 2
  MayFail = TRUE
  NoUser = NoUser
INVARIANTS TypeOK DualAuthorised CompletionIsReal RowIffPastApproved
           NoPaymentUnderAmlHold
PROPERTIES RowHistory ImplementsDisbursement InitiationSettles
