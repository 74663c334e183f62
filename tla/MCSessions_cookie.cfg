SPECIFICATION MCSpec
CONSTANTS
  c1 = c1
  c2 = c2
  s1 = s1
  s2 = s2
  p1 = p1
  p2 = p2
  finance = finance
  management = management
  t1 = t1
  b1 = b1
  l1 = l1
  l2 = l2
  r1 = r1
  r2 = r2
  o1 = o1
  NoSession = NoSession
  Calls <- MCCalls
  SessionIds <- MCSessionIds
  Passwords <- MCPasswords
  FirstPassword = p1
  Roles <- MCRoles
  FirstRole = finance
  Links <- MCLinks
  FirstLink = l1
  ResetTokens <- MCResetTokens
  BackupCodes <- MCBackupCodes
  MaxFailed = 2
  SessionTtl = 2
  Scenarios <- MCScenarios
  PageRequests <- MCPageRequests
  Logouts <- MCLogouts
  MaxTokens = 3
CHECK_DEADLOCK FALSE
INVARIANTS CookieWorks
