SPECIFICATION Spec
CONSTANTS
  b1 = b1
  b2 = b2
  Companies <- MCCompanies
  NoCompany = NoCompany
  MaxInt = 60
  ExtensionWindow = 2
  ExtensionDuration = 2
  NumAuctions = 1
  Terms <- MCTerms1
  Requests <- MCRequests
  Request <- MCRequest
  NumPayments = 2
  Payment <- MCPayment
  MaxActive = 2
  MaxFailures = 2
INVARIANTS
  StoredBidHasDeposit
  AnnouncedIsStored
CHECK_DEADLOCK FALSE
