SPECIFICATION Spec
CONSTANTS
  k1 = k1
  k2 = k2
  ann = ann
  bob = bob
  owner = owner
  v1 = v1
  v2 = v2
  e1 = e1
  e2 = e2
  r1 = r1
  r2 = r2
  r3 = r3
  o1 = o1
  o2 = o2
  n1 = n1
  n2 = n2
  q1 = q1
  q2 = q2
  KycCalls <- MCKycCalls
  Staff <- MCStaff
  Uploaders <- MCUploaders
  Required <- MCRequired
  MaxDocs = 3
  Nobody = Nobody
  Visits <- MCVisits
  FailsRequired <- MCFailsRequired
  TokenWindow = 3
  MaxChecks = 5
  Emails <- MCEmails
  RegNumbers <- MCRegNumbers
  Listed <- MCListed
  Officers <- MCOfficers
  Numbers <- MCNumbers
  Requests <- MCRequests
  ListedNames <- MCListedNames
  NoNumber = NoNumber
  NoBuyer = NoBuyer
SYMMETRY Symmetry
CHECK_DEADLOCK FALSE
INVARIANTS MakerChecker
