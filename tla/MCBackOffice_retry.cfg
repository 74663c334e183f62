SPECIFICATION Spec
CONSTANTS
  f1 = f1
  f2 = f2
  d1 = d1
  d2 = d2
  a1 = a1
  a2 = a2
  i1 = i1
  r1 = r1
  r2 = r2
  r3 = r3
  j1 = j1
  j2 = j2
  s1 = s1
  s2 = s2
  w1 = w1
  c1 = c1
  c2 = c2
  byTenor = byTenor
  byCredit = byCredit
  e1 = e1
  e2 = e2
  k1 = k1
  k2 = k2
  k3 = k3
  x1 = x1
  x2 = x2
  kill = kill
  bankRate = bankRate
  unknown = unknown
  m1 = m1
  m2 = m2
  q1 = q1
  q2 = q2
  BankFacilities <- MCFacilities
  TotalLimit <- MCTotalLimit
  Matures <- MCMatures
  Drawdowns <- MCDrawdowns
  Principals = {4, 5}
  DueDays = {1, 2}
  Accruals <- MCAccruals
  LastDay = 2
  SettledInvoices <- MCSettled
  SettlementCalls <- MCSettlementCalls
  Profits = {0, 7}
  SettlementAttempts = 3
  NoticeJobs <- MCNoticeJobs
  Mailers <- MCMailers
  NoticeAttempts = 3
  BreakerLimit = 2
  Slots = 2
  MaxStalls = 1
  Scorers <- MCScorers
  Scorings <- MCScorings
  Factors <- MCFactors
  Weights = {0, 1, 2}
  Defaults <- MCDefaults
  Total = 2
  MaxUpdates = 2
  Empty = Empty
  TheSum = TheSum
  FaceValues = {1, 777, 10000}
  Tenors = {30, 31, 90}
  Ratings = {"A", "C"}
  Collaterals = {"bank_guarantee", "corporate_guarantee"}
  Records <- MCRecords
  Utilisations = {40, 75, 91}
  ReferThresholds = {45, 50}
  BankRates = {1000, 1400}
  MarginRates = {50, 500}
  Precision = 10000
  Letters <- MCLetters
  Clerks <- MCClerks
  Contents = {1, 2}
  FirstContent = 1
  MaxEdits = 1
  SettingKeys <- MCSettingKeys
  KillSwitch = kill
  UnknownKey = unknown
  SettingValues = {0, 1}
  SeedValue = 0
  Changes <- MCChanges
  Proposers <- MCProposers
  Approvers <- MCApprovers
CHECK_DEADLOCK FALSE
INVARIANTS
  EveryAttemptTries
