SPECIFICATION FairSpec
CONSTANTS
  b1 = b1
  b2 = b2
  s1 = s1
  r1 = r1
  Candidates <- MCCandidates
  Seller <- MCSeller
  Http = {r1}
  Comments <- AllComments
  MaxDeals = 2
  MaxConfirmations = 2
  MaxActive = 1
  MaxFailures = 0
PROPERTIES
  FallbackFollows
CHECK_DEADLOCK FALSE
