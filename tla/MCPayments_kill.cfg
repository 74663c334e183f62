SPECIFICATION Spec
CONSTANTS
  i1 = i1
  j1 = j1
  j2 = j2
  e1 = e1
  e2 = e2
  m1 = m1
  m2 = m2
  m3 = m3
  Invoices = {i1}
  Managers = {m1, m2}
  Jobs = {j1}
  JobInvoice <- SingleJob
  Executions = {e1, e2}
  ExecInvoice <- TwoExecutions
  MaxAttempts = 1
  WorkerSlots = 1
  MayFail = FALSE
  NoUser = NoUser
PROPERTIES FailedStaysFailed
