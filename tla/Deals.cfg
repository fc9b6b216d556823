SPECIFICATION Spec
CONSTANTS
  b1 = b1
  b2 = b2
  s1 = s1
  r1 = r1
  Candidates <- MCCandidates
  Seller <- MCSeller
  Http = {r1}
  Comments <- NoComments
  MaxDeals = 3
  MaxConfirmations = 1
  MaxActive = 2
  MaxFailures = 1
INVARIANTS
  SelectionPointsToDeal
CHECK_DEADLOCK FALSE
