SPECIFICATION Spec
CONSTANTS
  i1 = i1
  n1 = n1
  Invoices = {i1, i2}
  Numbers = {n1}
  Number <- SameNumber
  Values = {1, 2, 3}
  AmlThreshold = 1
  Available = 2
  Confirms = {c1, c2}
  Target <- TwoClicks
  Workers = {w1, w2}
  MaxAttempts = 2
  MayFail = TRUE
  NoWorker = NoWorker
  NoJob = NoJob
INVARIANTS TypeOK ScreenedBeforeScoring OneScoringJob ScoreDecides
PROPERTIES ImplementsLifecycle JobSettles
CHECK_DEADLOCK FALSE
